---- MODULE Spec2Model ----
(***************************************************************************)
(* Model of the sortify playlist screen (src/app/playlist/[id].tsx): the   *)
(* paginated track ingestion, the Last.fm feature extraction, kMeans, the  *)
(* analysis pipeline and the cluster labeler.                              *)
(*                                                                         *)
(* Numbers in [0,1] are fixed point with unit 1/Scale, so every weight of  *)
(* the source (0.1, 0.3, 0.6, x/6, x/7, x/2) is an integer.  Centroids are *)
(* exact rationals [num, den].                                             *)
(***************************************************************************)
EXTENDS Integers, Sequences, FiniteSets, TLC

VARIABLES
    \* --- upstream playlist service and fetchPlaylistDetails
    items,            \* the playlist's items as the service holds them
    pc,               \* position of fetchPlaylistDetails
    url,              \* `url`: <<>> is null, <<off>> the page at offset off
    allTracks,        \* `allTracks`
    requests,         \* offsets of the track-page requests issued, in order
    inFlight,         \* track-page requests issued and not yet answered
    responses,        \* outcomes of the answered requests, in order
    \* --- React state of PlaylistScreen
    playlist,         \* <<>> is null
    tracksWithVibes,
    loading,
    analyzing,
    clustered,
    errors,           \* titles passed to showError, in order
    \* --- one application of analyzeTrackVibe
    fTrackInfo,       \* result of getLastFmTrackInfo: <<>> is null
    fArtistInfo,      \* result of getLastFmArtistInfo: <<>> is null
    fVibe,            \* <<>> before the call, <<VibeFeatures>> after
    \* --- one run of kMeans, iteration by iteration
    kmData,           \* `data`
    kmK,              \* `k`
    kmCentroids,      \* `centroids`, each an exact rational vector [num, den]
    kmClusters,       \* `clusters`
    kmIter,           \* `iter`
    kmPc,             \* "loop", "converged" (break) or "capped" (iter = maxIterations)
    kmChurn,          \* per iteration, the vectors whose cluster id changed
    \* --- analyzePlaylistVibes
    aPc,              \* "idle", "lookups" (Promise.all pending), "delay", "done",
                      \* "failed" (the catch block ran)
    aTracks,          \* `tracksWithVibes` as the running closure captured it
    enhancedTracks,   \* `enhancedTracks`
    aIdx,             \* `i`
    aTrackLookup,     \* getLastFmTrackInfo of track i: [state, info, kind]
    aArtistLookup,    \* getLastFmArtistInfo of track i: [state, info, kind]
    aK,               \* `optimalClusters` of the current run (0: not computed)
    aKMeansCalls,     \* kMeans invocations of the current run
    aClusters,        \* `clusters` of the current run
    \* --- one application of getVibeClusterName
    lId,              \* `clusterId`
    lTracks,          \* `tracks`
    lLabel,           \* <<>> before the call, <<label>> after
    \* --- navigation
    mounted,          \* PlaylistScreen is mounted (router.back() unmounts it)
    \* --- AuthContext and one call of makeAuthenticatedRequest
    accessToken,      \* `accessToken`: <<>> is null
    refreshToken,     \* SecureStore's "refreshToken": <<>> is null
    isLoggedIn,
    mPc,              \* "idle", "fetch", "refresh", "retry"
    mEvents,          \* what the requests of the current call met, in order
    mResult,          \* <<>>, or <<how the last call ended>>
    mBound,           \* `accessToken` as the function instance in use captured it
    mRun,             \* the events of the earlier calls of the caller's run
    mCalls,           \* the requests the caller's run makes if none fails
    \* --- AuthProvider and one run of checkAuth
    authLoading,
    storedToken,      \* SecureStore's "accessToken": <<>> is null
    cPc,              \* "idle", "start" (checkAuth is about to run), "validate",
                      \* "refresh", "revalidate"
    cToken,           \* `storedToken`, then `newToken`
    cRefresh,         \* `storedRefresh`
    cValidated        \* the token validateToken accepted in the current or last run

ingestVars == <<items, pc, url, allTracks, requests, inFlight, responses>>
screenVars == <<playlist, tracksWithVibes, loading, analyzing, clustered, errors>>
featVars == <<fTrackInfo, fArtistInfo, fVibe>>
kmVars == <<kmData, kmK, kmCentroids, kmClusters, kmIter, kmPc, kmChurn>>
anVars == <<aPc, aTracks, enhancedTracks, aIdx, aTrackLookup, aArtistLookup, aK,
           aKMeansCalls, aClusters>>
lblVars == <<lId, lTracks, lLabel>>
navVars == <<mounted>>
provVars == <<authLoading, storedToken, cPc, cToken, cRefresh, cValidated>>
authVars == <<accessToken, refreshToken, isLoggedIn, mPc, mEvents, mResult, mBound, mRun,
             mCalls, provVars>>

\* what fetchPlaylistDetails never touches
outsideIngest == <<featVars, kmVars, anVars, lblVars, navVars, authVars>>

(***************************************************************************)
(* Bounds                                                                  *)
(***************************************************************************)
MaxItems == 6         \* items held by a playlist
PageLimit == 2        \* items per page (limit=50 in the source, scaled down)
MaxTrackTags == 2     \* tags of a track.getInfo answer
MaxArtistTags == 1    \* tags of an artist.getInfo answer
MaxPoints == 4        \* vectors given to a kMeans run under study
MaxK == 3             \* cluster count of a kMeans run under study
MaxIterations == 2    \* maxIterations (100 in the source, scaled down so that the cap is reached)
MaxTracks == 3        \* tracks of a playlist under analysis
MaxMembers == 3       \* tracks handed to the labeler
MaxAnalysisErrors == 1 \* failed analyses after which Analyze is not pressed again
MaxRunCalls == 3      \* calls of makeAuthenticatedRequest in one run of a caller

Min(a, b) == IF a < b THEN a ELSE b
Max(a, b) == IF a > b THEN a ELSE b

RECURSIVE SeqSum(_)
SeqSum(s) == IF s = <<>> THEN 0 ELSE Head(s) + SeqSum(Tail(s))

RECURSIVE SelectSeqBy(_, _)
\* Array.prototype.filter with the predicate given as a set of accepted values
SelectSeqBy(s, ok) ==
    IF s = <<>> THEN <<>>
    ELSE IF Head(s) \in ok THEN <<Head(s)>> \o SelectSeqBy(Tail(s), ok)
         ELSE SelectSeqBy(Tail(s), ok)

(***************************************************************************)
(* Playlist items.  item.track is <<>> (null) or <<t>>; t.id = 0 stands    *)
(* for a missing identifier; t.type is "track" or "episode"; t.vibe and    *)
(* t.cluster are <<>> (undefined) until an analysis sets them.             *)
(***************************************************************************)
TrackIds == {1, 2}
Tracks == [id : TrackIds, type : {"track"}, vibe : {<<>>}, cluster : {<<>>}]
    \cup {[id |-> 0, type |-> "track", vibe |-> <<>>, cluster |-> <<>>],
          [id |-> 1, type |-> "episode", vibe |-> <<>>, cluster |-> <<>>]}
Items == {[track |-> <<>>]} \cup {[track |-> <<t>>] : t \in Tracks}

IsValidItemIgnoringType(item) ==
    IF item.track = <<>> THEN FALSE
    ELSE IF item.track[1].id = 0 THEN FALSE
    ELSE TRUE

\* the filter callback of fetchPlaylistDetails
IsValidItem(item) ==
    IF item.track = <<>> THEN FALSE
    ELSE IF item.track[1].id = 0 THEN FALSE
    ELSE IF item.track[1].type # "track" THEN FALSE
    ELSE TRUE

RECURSIVE ValidTracks(_)
\* tracksData.items.filter(...).map(item => item.track)
ValidTracks(its) ==
    IF its = <<>> THEN <<>>
    ELSE IF IsValidItem(Head(its))
         THEN <<Head(its).track[1]>> \o ValidTracks(Tail(its))
         ELSE ValidTracks(Tail(its))

\* the service's answer to GET .../tracks?limit=PageLimit at offset off
PageAt(off) ==
    [items |-> SubSeq(items, off + 1, Min(off + PageLimit, Len(items))),
     next  |-> IF off + PageLimit < Len(items) THEN <<off + PageLimit>> ELSE <<>>]

AppendTracksOnce(all, valid) ==
    all \o SelectSeqBy(valid, {t \in Tracks : \A i \in 1..Len(all) : all[i].id # t.id})

\* allTracks = [...allTracks, ...validTracks]
AppendTracks(all, valid) == all \o valid

NextUrlDropped(tracksData) == <<>>

\* url = tracksData.next
NextUrl(tracksData) == tracksData.next

\* outcome of one makeAuthenticatedRequest call as fetchPlaylistDetails sees it:
\* a response with ok, a response without ok, or a thrown error
Outcomes == {"ok", "notOk", "throw"}

FetchFailKeepsPartial(outcome) ==
    /\ errors' = Append(errors, "Playlist Error")
    /\ loading' = FALSE
    /\ pc' = "failed"
    /\ responses' = Append(responses, outcome)
    /\ tracksWithVibes' = allTracks
    /\ UNCHANGED <<items, url, allTracks, requests, playlist, analyzing, clustered>>
    /\ UNCHANGED outsideIngest

\* catch + finally of fetchPlaylistDetails
FetchFail(outcome) ==
    /\ errors' = Append(errors, "Playlist Error")
    /\ loading' = FALSE
    /\ pc' = "failed"
    /\ responses' = Append(responses, outcome)
    /\ UNCHANGED <<items, url, allTracks, requests, playlist, tracksWithVibes,
                   analyzing, clustered>>
    /\ UNCHANGED outsideIngest

\* useEffect: fetchPlaylistDetails up to its first await
FetchStart ==
    /\ pc = "idle"
    /\ loading' = TRUE
    /\ pc' = "playlist"
    /\ UNCHANGED <<items, url, allTracks, requests, inFlight, responses,
                   playlist, tracksWithVibes, analyzing, clustered, errors>>
    /\ UNCHANGED outsideIngest

\* the playlist request is answered: up to the first page request
PlaylistResponse ==
    /\ pc = "playlist"
    /\ \E outcome \in Outcomes :
        IF outcome = "ok"
        THEN /\ playlist' = <<"playlist">>
             /\ allTracks' = <<>>
             /\ url' = <<0>>
             /\ requests' = Append(requests, 0)
             /\ inFlight' = inFlight + 1
             /\ responses' = Append(responses, "ok")
             /\ pc' = "page"
             /\ UNCHANGED <<items, tracksWithVibes, loading,
                            analyzing, clustered, errors>>
             /\ UNCHANGED outsideIngest
        ELSE /\ FetchFail(outcome) /\ UNCHANGED inFlight

\* body of the while loop after `await makeAuthenticatedRequest(url)`
PageOk ==
    LET tracksData == PageAt(url[1])
        newAll == AppendTracks(allTracks, ValidTracks(tracksData.items))
        next == NextUrl(tracksData)
    IN  /\ allTracks' = newAll
        /\ url' = next
        /\ responses' = Append(responses, "ok")
        /\ IF next # <<>>
           THEN /\ requests' = Append(requests, next[1])
                /\ inFlight' = inFlight
                /\ pc' = "page"
                /\ UNCHANGED <<tracksWithVibes, loading>>
           ELSE /\ tracksWithVibes' = newAll
                /\ loading' = FALSE
                /\ inFlight' = inFlight - 1
                /\ pc' = "loaded"
                /\ UNCHANGED requests
        /\ UNCHANGED <<items, playlist, analyzing, clustered, errors>>
        /\ UNCHANGED outsideIngest

\* a track-page request is answered
PageResponse ==
    /\ pc = "page"
    /\ \E outcome \in Outcomes :
        IF outcome = "ok"
        THEN PageOk
        ELSE /\ FetchFail(outcome) /\ inFlight' = inFlight - 1

InitScreen ==
    /\ playlist = <<>>
    /\ tracksWithVibes = <<>>
    /\ loading = TRUE
    /\ analyzing = FALSE
    /\ clustered = FALSE
    /\ errors = <<>>
    /\ mounted = TRUE

\* fetchPlaylistDetails not started
IdleIngest ==
    /\ pc = "idle"
    /\ url = <<>>
    /\ allTracks = <<>>
    /\ requests = <<>>
    /\ inFlight = 0
    /\ responses = <<>>

\* no analyzeTrackVibe call under study
IdleFeatures ==
    /\ fTrackInfo = <<>>
    /\ fArtistInfo = <<>>
    /\ fVibe = <<>>

\* a lookup: not issued, in flight, or returned with what it resolved to (info)
\* and what fetch did (kind)
NoLookup == [state |-> "idle", info |-> <<>>, kind |-> "none"]
PendingLookup == [state |-> "pending", info |-> <<>>, kind |-> "none"]
DoneLookup(response, info) == [state |-> "done", info |-> info, kind |-> response.kind]

\* analyzePlaylistVibes not started
IdleAnalysis ==
    /\ aPc = "idle"
    /\ aTracks = <<>>
    /\ enhancedTracks = <<>>
    /\ aIdx = 0
    /\ aTrackLookup = NoLookup
    /\ aArtistLookup = NoLookup
    /\ aK = 0
    /\ aKMeansCalls = 0
    /\ aClusters = <<>>

\* no getVibeClusterName call under study
IdleLabel ==
    /\ lId = 0
    /\ lTracks = <<>>
    /\ lLabel = <<>>

\* the user is logged in and makeAuthenticatedRequest is not running
\* no checkAuth run: the provider has validated the stored token
IdleProvider ==
    /\ authLoading = FALSE
    /\ storedToken = <<"old">>
    /\ cPc = "idle"
    /\ cToken = <<>>
    /\ cRefresh = <<>>
    /\ cValidated = <<>>

IdleAuth ==
    /\ accessToken = <<"old">>
    /\ refreshToken = <<"refresh">>
    /\ isLoggedIn = TRUE
    /\ mPc = "idle"
    /\ mEvents = <<>>
    /\ mResult = <<>>
    /\ mBound = <<"old">>
    /\ mRun = <<>>
    /\ mCalls = 1
    /\ IdleProvider

\* no kMeans run under study
IdleKMeans ==
    /\ kmData = <<>>
    /\ kmK = 0
    /\ kmCentroids = <<>>
    /\ kmClusters = <<>>
    /\ kmIter = 0
    /\ kmPc = "idle"
    /\ kmChurn = <<>>

InitIngest ==
    /\ items \in UNION {[1..n -> Items] : n \in 0..MaxItems}
    /\ IdleIngest
    /\ InitScreen
    /\ IdleAuth
    /\ IdleFeatures
    /\ IdleKMeans
    /\ IdleAnalysis
    /\ IdleLabel

vars == <<ingestVars, screenVars, featVars, kmVars, anVars, lblVars, navVars, authVars>>

NextIngest == FetchStart \/ PlaylistResponse \/ PageResponse

SpecIngest == InitIngest /\ [][NextIngest]_vars

(***************************************************************************)
(* Feature extraction: analyzeTrackVibe and its helpers                    *)
(***************************************************************************)
\* 1.0 in fixed point: divisible by 10 (the tag weights), by 6 and 7 (the
\* log-scaled play counts) and by 2 (their average)
Scale == 840

Tenths(n) == (n * Scale) \div 10

\* Math.max(0, Math.min(1, x))
Clamp01(x) == Max(0, Min(Scale, x))

\* TAG_ANALYSIS
EnergyHigh == {"energetic", "upbeat", "dance", "electronic", "punk", "metal",
               "hardcore", "fast", "aggressive", "intense", "powerful", "driving"}
EnergyMedium == {"rock", "pop", "indie", "alternative", "hip hop", "funk", "soul",
                 "reggae", "country"}
EnergyLow == {"ambient", "classical", "jazz", "folk", "acoustic", "chill",
              "downtempo", "calm", "peaceful", "relaxing", "soft"}
MoodHappy == {"happy", "uplifting", "positive", "cheerful", "joyful", "fun", "party",
              "celebration", "euphoric", "optimistic"}
MoodSad == {"sad", "melancholy", "depressing", "dark", "emotional", "tragic",
            "lonely", "heartbreak", "blue", "somber"}
EraVintage == {"classic", "oldies", "60s", "70s", "80s", "retro", "vintage",
               "traditional"}
EraModern == {"contemporary", "new", "recent", "2010s", "2020s", "current", "fresh"}
MainstreamPopular == {"pop", "mainstream", "commercial", "radio", "chart", "hit"}
MainstreamNiche == {"underground", "indie", "experimental", "avant-garde",
                    "alternative", "obscure"}
RomanticKeywords == {"love", "romantic", "ballad", "tender"}

\* tag names the tag service answers with; "" stands for a tag without a name
TagNames == {"Dance", "chill", "happy", "sad", "love songs", "classical",
             "experimental", "pop", ""}

\* tag.name?.toLowerCase() || ""
ToLowerCase(name) == IF name = "Dance" THEN "dance" ELSE name

\* the keywords of the source's tables that are substrings of a lower-cased tag
KeywordsIn(tag) ==
    CASE tag = "dance" -> {"dance"}
      [] tag = "chill" -> {"chill"}
      [] tag = "happy" -> {"happy"}
      [] tag = "sad" -> {"sad"}
      [] tag = "love songs" -> {"love"}
      [] tag = "classical" -> {"classical", "classic"}
      [] tag = "experimental" -> {"experimental"}
      [] tag = "pop" -> {"pop"}
      [] OTHER -> {}

\* keywords.some((keyword) => tag.includes(keyword))
IncludesSome(tag, keywords) == KeywordsIn(tag) \cap keywords # {}

\* tags.some((tag) => keywords.some((keyword) => tag.includes(keyword)))
SomeTagIncludes(tags, keywords) ==
    \E i \in 1..Len(tags) : IncludesSome(tags[i], keywords)

\* Array.prototype.slice(0, n)
SliceTo(s, n) == SubSeq(s, 1, Min(n, Len(s)))

RECURSIVE LowerNames(_)
\* .map((tag) => tag.name?.toLowerCase() || "")
LowerNames(tagObjs) ==
    IF tagObjs = <<>> THEN <<>>
    ELSE <<ToLowerCase(Head(tagObjs).name)>> \o LowerNames(Tail(tagObjs))

\* allTags.slice(0, 3).map(...).filter(Boolean)
PrimaryTags(allTags) ==
    SelectSeqBy(LowerNames(SliceTo(allTags, 3)), {ToLowerCase(n) : n \in TagNames} \ {""})

\* one pass of the first loop of calculateEnergyFromTags
EnergyPrimaryWeight(tag) ==
    IF IncludesSome(tag, EnergyHigh) THEN Tenths(3)
    ELSE IF IncludesSome(tag, EnergyLow) THEN 0 - Tenths(3)
    ELSE IF IncludesSome(tag, EnergyMedium) THEN Tenths(1)
    ELSE 0

\* one pass of the second loop of calculateEnergyFromTags
EnergyAllWeight(tag) ==
    IF IncludesSome(tag, EnergyHigh) THEN Tenths(1)
    ELSE IF IncludesSome(tag, EnergyLow) THEN 0 - Tenths(1)
    ELSE 0

RECURSIVE EnergyPrimaryLoop(_, _)
EnergyPrimaryLoop(tags, score) ==
    IF tags = <<>> THEN score
    ELSE EnergyPrimaryLoop(Tail(tags), score + EnergyPrimaryWeight(Head(tags)))

RECURSIVE EnergyAllLoop(_, _)
EnergyAllLoop(tags, score) ==
    IF tags = <<>> THEN score
    ELSE EnergyAllLoop(Tail(tags), score + EnergyAllWeight(Head(tags)))

calculateEnergyUnclamped(primaryTags, allTags) ==
    EnergyAllLoop(LowerNames(SliceTo(allTags, 10)),
                  EnergyPrimaryLoop(primaryTags, Tenths(5)))

calculateEnergyFromTags(primaryTags, allTags) ==
    Clamp01(EnergyAllLoop(LowerNames(SliceTo(allTags, 10)),
                          EnergyPrimaryLoop(primaryTags, Tenths(5))))

MoodWeight(tag) ==
    IF IncludesSome(tag, MoodHappy) THEN Tenths(3)
    ELSE IF IncludesSome(tag, MoodSad) THEN 0 - Tenths(3)
    ELSE 0

RECURSIVE MoodLoop(_, _)
MoodLoop(tags, score) ==
    IF tags = <<>> THEN score
    ELSE MoodLoop(Tail(tags), score + MoodWeight(Head(tags)))

calculateMoodFromTags(primaryTags, allTags) ==
    Clamp01(MoodLoop(primaryTags, Tenths(5))
            + (IF SomeTagIncludes(primaryTags, RomanticKeywords) THEN Tenths(2) ELSE 0))

RECURSIVE ParseDigits(_, _)
ParseDigits(digits, acc) ==
    IF digits = <<>> THEN acc
    ELSE ParseDigits(Tail(digits), 10 * acc + Head(digits))

\* parseInt(field || "0") of a decimal string given as its digits; <<>> is an
\* absent field
ParseInt(field) == ParseDigits(IF field = <<>> THEN <<0>> ELSE field, 0)

RECURSIVE Log10(_)
\* Math.log10 of a power of ten (the statistics drawn below are powers of ten)
Log10(n) == IF n < 10 THEN 0 ELSE 1 + Log10(n \div 10)

\* trackInfo?.playcount, artistInfo?.stats?.listeners, ...
FieldOf(info, name) == IF info = <<>> THEN <<>> ELSE info[1][name]

calculatePopularityUncapped(trackInfo, artistInfo) ==
    LET trackPlaycount == ParseInt(FieldOf(trackInfo, "playcount"))
        artistListeners == ParseInt(FieldOf(artistInfo, "listeners"))
    IN  ((Log10(Max(trackPlaycount, 1)) * Scale) \div 6
         + (Log10(Max(artistListeners, 1)) * Scale) \div 7) \div 2

\* trackListeners and artistPlaycount are parsed by the source and never used
calculatePopularity(trackInfo, artistInfo) ==
    LET trackPlaycount == ParseInt(FieldOf(trackInfo, "playcount"))
        artistListeners == ParseInt(FieldOf(artistInfo, "listeners"))
        trackPopularity == Min((Log10(Max(trackPlaycount, 1)) * Scale) \div 6, Scale)
        artistPopularity == Min((Log10(Max(artistListeners, 1)) * Scale) \div 7, Scale)
    IN  (trackPopularity + artistPopularity) \div 2

calculateEra(tags, artistInfo) ==
    LET artistListeners == ParseInt(FieldOf(artistInfo, "listeners"))
    IN  Clamp01(Tenths(5)
                - (IF SomeTagIncludes(tags, EraVintage) THEN Tenths(3) ELSE 0)
                + (IF SomeTagIncludes(tags, EraModern) THEN Tenths(3) ELSE 0)
                + (IF artistListeners > 1000000 THEN Tenths(1) ELSE 0))

calculateMainstream(tags, popularity) ==
    Clamp01((popularity * 6) \div 10
            + (IF SomeTagIncludes(tags, MainstreamPopular) THEN Tenths(3) ELSE 0)
            - (IF SomeTagIncludes(tags, MainstreamNiche) THEN Tenths(3) ELSE 0))

VibeCategoryNames == {"party", "workout", "chill", "focus", "melancholy", "romantic",
                      "nostalgic", "experimental"}

determineVibeCategoryMixedDefault(energy, mood, tags) ==
    IF SomeTagIncludes(tags, {"love", "romantic", "ballad"}) THEN "romantic"
    ELSE IF SomeTagIncludes(tags, {"workout", "gym", "training"}) THEN "workout"
    ELSE IF SomeTagIncludes(tags, {"ambient", "study", "concentration"}) THEN "focus"
    ELSE IF SomeTagIncludes(tags, {"experimental", "avant-garde", "weird"})
         THEN "experimental"
    ELSE IF SomeTagIncludes(tags, {"classic", "oldies", "vintage"}) THEN "nostalgic"
    ELSE IF energy >= Tenths(7) /\ mood >= Tenths(6) THEN "party"
    ELSE IF energy >= Tenths(8) THEN "workout"
    ELSE IF energy <= Tenths(4) /\ mood >= Tenths(5) THEN "chill"
    ELSE IF energy >= Tenths(3) /\ energy <= Tenths(6)
            /\ mood >= Tenths(4) /\ mood <= Tenths(7) THEN "focus"
    ELSE IF mood <= Tenths(4) THEN "melancholy"
    ELSE IF energy <= Tenths(6) /\ mood >= Tenths(6) THEN "romantic"
    ELSE "mixed"

determineVibeCategory(energy, mood, tags) ==
    IF SomeTagIncludes(tags, {"love", "romantic", "ballad"}) THEN "romantic"
    ELSE IF SomeTagIncludes(tags, {"workout", "gym", "training"}) THEN "workout"
    ELSE IF SomeTagIncludes(tags, {"ambient", "study", "concentration"}) THEN "focus"
    ELSE IF SomeTagIncludes(tags, {"experimental", "avant-garde", "weird"})
         THEN "experimental"
    ELSE IF SomeTagIncludes(tags, {"classic", "oldies", "vintage"}) THEN "nostalgic"
    ELSE IF energy >= Tenths(7) /\ mood >= Tenths(6) THEN "party"
    ELSE IF energy >= Tenths(8) THEN "workout"
    ELSE IF energy <= Tenths(4) /\ mood >= Tenths(5) THEN "chill"
    ELSE IF energy >= Tenths(3) /\ energy <= Tenths(6)
            /\ mood >= Tenths(4) /\ mood <= Tenths(7) THEN "focus"
    ELSE IF mood <= Tenths(4) THEN "melancholy"
    ELSE IF energy <= Tenths(6) /\ mood >= Tenths(6) THEN "romantic"
    ELSE "chill"

\* analyzeTrackVibe after both lookups have returned
analyzeTrackVibe(trackInfo, artistInfo) ==
    LET trackTags == FieldOf(trackInfo, "tags")
        artistTags == FieldOf(artistInfo, "tags")
        allTags == trackTags \o artistTags
        primaryTags == PrimaryTags(allTags)
        energy == calculateEnergyFromTags(primaryTags, allTags)
        mood == calculateMoodFromTags(primaryTags, allTags)
        popularity == calculatePopularity(trackInfo, artistInfo)
    IN  [energy |-> energy,
         mood |-> mood,
         popularity |-> popularity,
         era |-> calculateEra(primaryTags, artistInfo),
         mainstream |-> calculateMainstream(primaryTags, popularity),
         vibe_category |-> determineVibeCategory(energy, mood, primaryTags),
         primary_tags |-> primaryTags]

TagObjects == [name : TagNames]

TagLists(n) == UNION {[1..m -> TagObjects] : m \in 0..n}

\* statistics as decimal strings (their digits); <<>> is an absent field
Playcounts == {<<>>, <<1, 0, 0, 0>>, <<1, 0, 0, 0, 0, 0, 0, 0, 0>>}
Listeners == {<<>>, <<1, 0, 0, 0, 0, 0, 0, 0, 0>>}

\* what getLastFmTrackInfo resolves to: null, or data.track with its toptags.tag
\* (absent reads as []) and playcount
TrackInfos(n) ==
    {<<>>} \cup {<<[tags |-> ts, playcount |-> p]>> : ts \in TagLists(n), p \in Playcounts}

\* what getLastFmArtistInfo resolves to: null, or data.artist with its tags.tag
\* and stats.listeners
ArtistInfos(n) ==
    {<<>>} \cup {<<[tags |-> ts, listeners |-> l]>> : ts \in TagLists(n), l \in Listeners}

\* a tag entry that is null instead of an object
NullTag == [name |-> "", isNull |-> TRUE]

\* [...trackTags, ...artistTags] of a tag field that is one object and not a
\* list: an object is not iterable (the object is tags[1] of the info)
SpreadThrows(info) == info # <<>> /\ "tagsNotArray" \in DOMAIN info[1]

\* tag.name of a null entry, in allTags.slice(0, 3).map and in the loop over
\* allTags.slice(0, 10)
NullEntryThrows(allTags) ==
    \E i \in 1..Min(10, Len(allTags)) : "isNull" \in DOMAIN allTags[i]

\* the inputs on which analyzeTrackVibe ends in a TypeError
analyzeTrackVibeThrows(trackInfo, artistInfo) ==
    \/ SpreadThrows(trackInfo)
    \/ SpreadThrows(artistInfo)
    \/ NullEntryThrows(FieldOf(trackInfo, "tags") \o FieldOf(artistInfo, "tags"))

\* analyzeTrackVibe is applied to the two lookup results
ApplyAnalyzeTrackVibe ==
    /\ fVibe = <<>>
    /\ fVibe' = <<IF analyzeTrackVibeThrows(fTrackInfo, fArtistInfo)
                  THEN [threw |-> "TypeError"]
                  ELSE analyzeTrackVibe(fTrackInfo, fArtistInfo)>>
    /\ UNCHANGED <<fTrackInfo, fArtistInfo, ingestVars, screenVars, kmVars, anVars,
                   lblVars,
                   navVars, authVars>>

InitFeatures ==
    /\ fTrackInfo \in TrackInfos(MaxTrackTags)
    /\ fArtistInfo \in ArtistInfos(MaxArtistTags)
    /\ fVibe = <<>>
    /\ items = <<>>
    /\ IdleIngest
    /\ InitScreen
    /\ IdleAuth
    /\ IdleKMeans
    /\ IdleAnalysis
    /\ IdleLabel

NextFeatures == ApplyAnalyzeTrackVibe

SpecFeatures == InitFeatures /\ [][NextFeatures]_vars

\* answers of every shape: entries with a name, without a name, null
ShapedTagObjects == [name : {"Dance", "sad", ""}] \cup {NullTag}

ShapedTagLists(n) == UNION {[1..m -> ShapedTagObjects] : m \in 0..n}

\* data.track: no toptags.tag or a list of entries, or one entry that is not
\* in a list; with or without playcount
ShapedTrackInfos ==
    {<<>>}
    \cup {<<[tags |-> ts, playcount |-> p]>> :
              ts \in ShapedTagLists(MaxTrackTags), p \in Playcounts}
    \cup {<<[tags |-> <<t>>, playcount |-> p, tagsNotArray |-> TRUE]>> :
              t \in ShapedTagObjects, p \in Playcounts}

\* data.artist, likewise, with or without stats
ShapedArtistInfos ==
    {<<>>}
    \cup {<<[tags |-> ts, listeners |-> l]>> :
              ts \in ShapedTagLists(MaxArtistTags), l \in Listeners}
    \cup {<<[tags |-> <<t>>, listeners |-> l, tagsNotArray |-> TRUE]>> :
              t \in ShapedTagObjects, l \in Listeners}

InitShapes ==
    /\ fTrackInfo \in ShapedTrackInfos
    /\ fArtistInfo \in ShapedArtistInfos
    /\ fVibe = <<>>
    /\ items = <<>>
    /\ IdleIngest
    /\ InitScreen
    /\ IdleAuth
    /\ IdleKMeans
    /\ IdleAnalysis
    /\ IdleLabel

NextShapes == ApplyAnalyzeTrackVibe

SpecShapes == InitShapes /\ [][NextShapes]_vars

(***************************************************************************)
(* kMeans.  A centroid is the exact rational vector num/den; distances are *)
(* compared by their squares (Math.sqrt is monotone), cross-multiplied by  *)
(* the denominators.                                                       *)
(***************************************************************************)
RECURSIVE SquaredDiffs(_, _, _)
\* point.reduce((sum, val, j) => sum + Math.pow(val - centroid[j], 2), 0),
\* times centroid.den^2
SquaredDiffs(point, centroid, j) ==
    IF j > Len(point) THEN 0
    ELSE (centroid.den * point[j] - centroid.num[j])
             * (centroid.den * point[j] - centroid.num[j])
         + SquaredDiffs(point, centroid, j + 1)

\* distance(point, a) < distance(point, b)
Nearer(point, a, b) ==
    SquaredDiffs(point, a, 1) * b.den * b.den < SquaredDiffs(point, b, 1) * a.den * a.den

RECURSIVE ClosestFarthestLoop(_, _, _, _)
ClosestFarthestLoop(point, centroids, i, closest) ==
    IF i > Len(centroids) THEN closest
    ELSE ClosestFarthestLoop(point, centroids, i + 1,
             IF Nearer(point, centroids[closest], centroids[i]) THEN i ELSE closest)

RECURSIVE ClosestLoopLastOnTie(_, _, _, _)
ClosestLoopLastOnTie(point, centroids, i, closest) ==
    IF i > Len(centroids) THEN closest
    ELSE ClosestLoopLastOnTie(point, centroids, i + 1,
             IF Nearer(point, centroids[closest], centroids[i]) THEN closest ELSE i)

RECURSIVE ClosestLoop(_, _, _, _)
\* centroids.forEach: `closest` is closestCentroid + 1; the first centroid always
\* beats minDistance = Infinity
ClosestLoop(point, centroids, i, closest) ==
    IF i > Len(centroids) THEN closest
    ELSE ClosestLoop(point, centroids, i + 1,
             IF Nearer(point, centroids[i], centroids[closest]) THEN i ELSE closest)

ClosestCentroidOffByOne(point, centroids) == ClosestLoop(point, centroids, 2, 1)

\* the callback of data.map: the 0-based index of the nearest centroid
ClosestCentroid(point, centroids) == ClosestLoop(point, centroids, 2, 1) - 1

\* const newClusters = data.map(...)
AssignClusters(data, centroids) ==
    [p \in 1..Len(data) |-> ClosestCentroid(data[p], centroids)]

SameClustersButOne(newClusters, clusters) ==
    Cardinality({p \in 1..Len(newClusters) : newClusters[p] # clusters[p]}) <= 1

\* newClusters.every((cluster, i) => cluster === clusters[i])
SameClusters(newClusters, clusters) ==
    \A p \in 1..Len(newClusters) : newClusters[p] = clusters[p]

RECURSIVE SumCoord(_, _, _, _)
\* clusterPoints.reduce((sum, point) => sum + point[j], 0)
SumCoord(data, clusters, i, j) ==
    IF data = <<>> THEN 0
    ELSE (IF Head(clusters) = i THEN Head(data)[j] ELSE 0)
         + SumCoord(Tail(data), Tail(clusters), i, j)

UpdateCentroidsReset(data, clusters, centroids) ==
    [c \in 1..Len(centroids) |->
        LET size == Cardinality({p \in 1..Len(data) : clusters[p] = c - 1})
        IN  IF size > 0
            THEN [num |-> [j \in 1..Len(data[1]) |-> SumCoord(data, clusters, c - 1, j)],
                  den |-> size]
            ELSE [num |-> [j \in 1..Len(data[1]) |-> 0], den |-> 1]]

\* the update loop: the mean of the members, or the old position without members
UpdateCentroids(data, clusters, centroids) ==
    [c \in 1..Len(centroids) |->
        LET size == Cardinality({p \in 1..Len(data) : clusters[p] = c - 1})
        IN  IF size > 0
            THEN [num |-> [j \in 1..Len(data[1]) |-> SumCoord(data, clusters, c - 1, j)],
                  den |-> size]
            ELSE centroids[c]]

KMeansIterationUpdatesOnBreak(data, centroids, clusters) ==
    LET newClusters == AssignClusters(data, centroids)
    IN  [break |-> SameClusters(newClusters, clusters), clusters |-> newClusters,
         centroids |-> UpdateCentroids(data, newClusters, centroids),
         newClusters |-> newClusters]

\* one pass of the for loop of kMeans
KMeansIteration(data, centroids, clusters) ==
    LET newClusters == AssignClusters(data, centroids)
    IN  IF SameClusters(newClusters, clusters)
        THEN [break |-> TRUE, clusters |-> clusters, centroids |-> centroids,
              newClusters |-> newClusters]
        ELSE [break |-> FALSE, clusters |-> newClusters,
              centroids |-> UpdateCentroids(data, newClusters, centroids),
              newClusters |-> newClusters]

RECURSIVE KMeansLoop(_, _, _, _)
KMeansLoop(data, centroids, clusters, iter) ==
    IF iter >= MaxIterations THEN clusters
    ELSE LET it == KMeansIteration(data, centroids, clusters)
         IN  IF it.break THEN clusters
             ELSE KMeansLoop(data, it.centroids, it.clusters, iter + 1)

\* centroids as Math.random() drew them: coordinates with denominator 1
AsCentroids(vectors) == [c \in 1..Len(vectors) |-> [num |-> vectors[c], den |-> 1]]

\* kMeans(data, k) with the k random vectors it drew
kMeans(data, randomVectors) ==
    KMeansLoop(data, AsCentroids(randomVectors), [p \in 1..Len(data) |-> 0], 0)

\* vectors and random draws of the run under study, in tenths
KmPoints == {<<0>>, <<4>>, <<5>>}
KmRandomVectors == {<<0>>, <<9>>}

\* one iteration of the for loop of the run under study
KMeansIterate ==
    /\ kmPc = "loop"
    /\ LET it == KMeansIteration(kmData, kmCentroids, kmClusters)
       IN  /\ kmClusters' = it.clusters
           /\ kmCentroids' = it.centroids
           /\ kmChurn' = Append(kmChurn,
                  Cardinality({p \in 1..Len(kmData) : it.newClusters[p] # kmClusters[p]}))
           /\ kmIter' = IF it.break THEN kmIter ELSE kmIter + 1
           /\ kmPc' = IF it.break THEN "converged"
                      ELSE IF kmIter + 1 >= MaxIterations THEN "capped"
                      ELSE "loop"
    /\ UNCHANGED <<kmData, kmK, ingestVars, screenVars, featVars, anVars, lblVars,
                   navVars, authVars>>

InitKMeans ==
    /\ kmData \in UNION {[1..n -> KmPoints] : n \in 1..MaxPoints}
    /\ kmK \in 2..MaxK
    /\ kmCentroids \in {AsCentroids(v) : v \in [1..kmK -> KmRandomVectors]}
    /\ kmClusters = [p \in 1..Len(kmData) |-> 0]
    /\ kmIter = 0
    /\ kmPc = "loop"
    /\ kmChurn = <<>>
    /\ items = <<>>
    /\ IdleIngest
    /\ InitScreen
    /\ IdleAuth
    /\ IdleFeatures
    /\ IdleAnalysis
    /\ IdleLabel

NextKMeans == KMeansIterate

SpecKMeans == InitKMeans /\ [][NextKMeans]_vars

\* the for loop is synchronous code that runs to its end
SpecKMeansRuns == SpecKMeans /\ WF_vars(NextKMeans)

(***************************************************************************)
(* The cluster labeler: getVibeClusterName.  A label is the record         *)
(* [emoji, text] of the string `${emoji} ${text}`.                         *)
(***************************************************************************)
VIBE_CATEGORIES ==
    [party |-> [energy |-> <<Tenths(7), Tenths(10)>>, mood |-> <<Tenths(6), Tenths(10)>>,
                emoji |-> "party popper"],
     workout |-> [energy |-> <<Tenths(8), Tenths(10)>>, mood |-> <<Tenths(4), Tenths(8)>>,
                  emoji |-> "flexed biceps"],
     chill |-> [energy |-> <<0, Tenths(4)>>, mood |-> <<Tenths(5), Tenths(10)>>,
                emoji |-> "relieved face"],
     focus |-> [energy |-> <<Tenths(3), Tenths(6)>>, mood |-> <<Tenths(4), Tenths(7)>>,
                emoji |-> "direct hit"],
     melancholy |-> [energy |-> <<0, Tenths(5)>>, mood |-> <<0, Tenths(4)>>,
                     emoji |-> "pensive face"],
     romantic |-> [energy |-> <<Tenths(2), Tenths(6)>>, mood |-> <<Tenths(6), Tenths(9)>>,
                   emoji |-> "two hearts"],
     nostalgic |-> [energy |-> <<Tenths(3), Tenths(7)>>, mood |-> <<Tenths(4), Tenths(8)>>,
                    emoji |-> "sunrise"],
     experimental |-> [energy |-> <<Tenths(2), Tenths(8)>>, mood |-> <<Tenths(2), Tenths(8)>>,
                       emoji |-> "performing arts"]]

\* topVibe.charAt(0).toUpperCase() + topVibe.slice(1)
Capitalize(word) ==
    CASE word = "party" -> "Party"
      [] word = "workout" -> "Workout"
      [] word = "chill" -> "Chill"
      [] word = "focus" -> "Focus"
      [] word = "melancholy" -> "Melancholy"
      [] word = "romantic" -> "Romantic"
      [] word = "nostalgic" -> "Nostalgic"
      [] word = "experimental" -> "Experimental"
      [] word = "mixed" -> "Mixed"
      [] OTHER -> word

RECURSIVE VibesOfCluster(_, _)
\* tracks.filter((t) => t.cluster === clusterId).map((t) => t.vibe).filter(Boolean)
VibesOfCluster(clusterId, tracks) ==
    IF tracks = <<>> THEN <<>>
    ELSE IF Head(tracks).cluster = <<clusterId>> /\ Head(tracks).vibe # <<>>
         THEN <<Head(tracks).vibe[1]>> \o VibesOfCluster(clusterId, Tail(tracks))
         ELSE VibesOfCluster(clusterId, Tail(tracks))

RECURSIVE CategoryKeys(_, _)
\* the keys of vibeCounts in insertion order
CategoryKeys(vibes, seen) ==
    IF vibes = <<>> THEN seen
    ELSE CategoryKeys(Tail(vibes),
             IF \E i \in 1..Len(seen) : seen[i] = Head(vibes).vibe_category
             THEN seen
             ELSE Append(seen, Head(vibes).vibe_category))

\* vibeCounts[category]
VibeCount(vibes, category) ==
    Cardinality({i \in 1..Len(vibes) : vibes[i].vibe_category = category})

TopVibeLastOnTie(vibes) ==
    LET keys == CategoryKeys(vibes, <<>>)
        best == CHOOSE i \in 1..Len(keys) :
                    /\ \A j \in 1..Len(keys) :
                           VibeCount(vibes, keys[j]) <= VibeCount(vibes, keys[i])
                    /\ \A j \in (i + 1)..Len(keys) :
                           VibeCount(vibes, keys[j]) < VibeCount(vibes, keys[i])
    IN  keys[best]

\* Object.entries(vibeCounts).sort(([, a], [, b]) => b - a)[0][0]: the sort is
\* stable, so the first key with the largest count
TopVibe(vibes) ==
    LET keys == CategoryKeys(vibes, <<>>)
        best == CHOOSE i \in 1..Len(keys) :
                    /\ \A j \in 1..Len(keys) :
                           VibeCount(vibes, keys[j]) <= VibeCount(vibes, keys[i])
                    /\ \A j \in 1..(i - 1) :
                           VibeCount(vibes, keys[j]) < VibeCount(vibes, keys[i])
    IN  keys[best]

RECURSIVE SumField(_, _)
SumField(vibes, field) ==
    IF vibes = <<>> THEN 0 ELSE Head(vibes)[field] + SumField(Tail(vibes), field)

\* the fallback naming; avg >= x is sum >= x * length
FallbackName(vibes) ==
    LET n == Len(vibes)
        sumEnergy == SumField(vibes, "energy")
        sumMood == SumField(vibes, "mood")
        energyDesc == IF sumEnergy >= Tenths(7) * n
                      THEN [emoji |-> "fire", text |-> "High Energy"]
                      ELSE IF sumEnergy >= Tenths(4) * n
                           THEN [emoji |-> "high voltage", text |-> "Medium Energy"]
                           ELSE [emoji |-> "relieved face", text |-> "Chill"]
        moodDesc == IF sumMood >= Tenths(7) * n THEN "grinning face Happy"
                    ELSE IF sumMood <= Tenths(3) * n THEN "pensive face Melancholy"
                    ELSE "neutral face Balanced"
    IN  [emoji |-> energyDesc.emoji, text |-> energyDesc.text \o " " \o moodDesc]

getVibeClusterNameNoDefault(clusterId, tracks) ==
    LET vibes == VibesOfCluster(clusterId, tracks)
    IN  IF Len(vibes) = 0 THEN [emoji |-> "", text |-> ""]
        ELSE LET topVibe == TopVibe(vibes)
             IN  IF topVibe \in DOMAIN VIBE_CATEGORIES
                 THEN [emoji |-> VIBE_CATEGORIES[topVibe].emoji,
                       text |-> Capitalize(topVibe) \o " Vibes"]
                 ELSE FallbackName(vibes)

getVibeClusterName(clusterId, tracks) ==
    LET vibes == VibesOfCluster(clusterId, tracks)
    IN  IF Len(vibes) = 0
        THEN [emoji |-> "musical note", text |-> "Group " \o ToString(clusterId + 1)]
        ELSE LET topVibe == TopVibe(vibes)
             IN  IF topVibe \in DOMAIN VIBE_CATEGORIES
                 THEN [emoji |-> VIBE_CATEGORIES[topVibe].emoji,
                       text |-> Capitalize(topVibe) \o " Vibes"]
                 ELSE FallbackName(vibes)

(***************************************************************************)
(* analyzePlaylistVibes and the Reset button                               *)
(***************************************************************************)
\* lookup answers the pipeline is run against
SampleTrackInfos ==
    {<<>>,
     <<[tags |-> <<[name |-> "Dance"], [name |-> "happy"]>>, playcount |-> <<1, 0, 0, 0>>]>>,
     <<[tags |-> <<[name |-> "sad"]>>, playcount |-> <<>>]>>,
     <<[tags |-> <<NullTag>>, playcount |-> <<>>]>>}
SampleArtistInfos ==
    {<<>>,
     <<[tags |-> <<[name |-> "chill"]>>, listeners |-> <<1, 0, 0, 0, 0, 0, 0, 0, 0>>]>>}

\* what fetch(url) of a lookup does: throws, answers without ok, or answers
\* ok; an answer has a JSON body whose track / artist member is `data`
\* (<<>>: no such member)
Responses(infos) ==
    {[kind |-> "throw", data |-> <<>>]}
    \cup {[kind |-> k, data |-> d] : k \in {"notOk", "ok"}, d \in infos}

getLastFmInfoIgnoringStatus(response) == response.data

\* getLastFmTrackInfo and getLastFmArtistInfo: null unless the answer is ok
getLastFmInfo(response) == IF response.kind = "ok" THEN response.data ELSE <<>>

\* draws of Math.random() for one centroid
AnRandomVectors ==
    {<<0, 0, 0, 0, 0>>,
     <<Tenths(5), Tenths(5), 0, Tenths(5), 0>>,
     <<Tenths(9), Tenths(9), Tenths(9), Tenths(9), Tenths(9)>>}

\* new Set(enhancedTracks.map((t) => t.vibe?.vibe_category))
UniqueVibes(tracks) == {tracks[i].vibe[1].vibe_category : i \in 1..Len(tracks)}

\* Math.min(Math.max(2, uniqueVibes.size), 6)
OptimalClusters(tracks) == Min(Max(2, Cardinality(UniqueVibes(tracks))), 6)

\* [v.energy, v.mood, v.popularity, v.era, v.mainstream] per track
Features(tracks) ==
    [i \in 1..Len(tracks) |->
        LET v == tracks[i].vibe[1]
        IN  <<v.energy, v.mood, v.popularity, v.era, v.mainstream>>]

ClusteredTracksShifted(tracks, clusters) ==
    [i \in 1..Len(tracks) |->
        [tracks[i] EXCEPT !.cluster = <<clusters[Len(tracks) + 1 - i]>>]]

\* enhancedTracks.map((track, index) => ({...track, cluster: clusters[index]}))
ClusteredTracks(tracks, clusters) ==
    [i \in 1..Len(tracks) |-> [tracks[i] EXCEPT !.cluster = <<clusters[i]>>]]

groupedTracksWithoutFirst(isClustered, tracks) ==
    IF isClustered
    THEN [c \in {tracks[i].cluster[1] : i \in 1..Len(tracks)} |->
             Tail(SelectSeqBy(tracks, {tracks[i] : i \in {j \in 1..Len(tracks) : tracks[j].cluster = <<c>>}}))]
    ELSE <<>>

\* groupedTracks: the reduce over tracksWithVibes, a group per cluster id that
\* some track has, its tracks in list order; {} while not clustered
groupedTracks(isClustered, tracks) ==
    IF isClustered
    THEN [c \in {tracks[i].cluster[1] : i \in 1..Len(tracks)} |->
             SelectSeqBy(tracks, {tracks[i] : i \in {j \in 1..Len(tracks) : tracks[j].cluster = <<c>>}})]
    ELSE <<>>

\* the button "Analyze" is pressed: analyzePlaylistVibes up to the first await
AnalyzeStart ==
    /\ mounted
    /\ pc = "loaded"
    /\ ~clustered
    /\ ~analyzing
    /\ Len(tracksWithVibes) # 0
    /\ Len(errors) < MaxAnalysisErrors
    /\ analyzing' = TRUE
    /\ aTracks' = tracksWithVibes
    /\ enhancedTracks' = <<>>
    /\ aIdx' = 0
    /\ aKMeansCalls' = 0
    /\ aK' = 0
    /\ aClusters' = <<>>
    /\ aTrackLookup' = PendingLookup
    /\ aArtistLookup' = PendingLookup
    /\ aPc' = "lookups"
    /\ UNCHANGED <<playlist, tracksWithVibes, loading, clustered, errors,
                   ingestVars, featVars, kmVars, lblVars,
                   navVars, authVars>>

AfterLookupsShowsPartial(trackInfo, artistInfo) ==
    IF analyzeTrackVibeThrows(trackInfo, artistInfo)
    THEN /\ errors' = Append(errors, "Analysis Error")
         /\ analyzing' = (~mounted /\ analyzing)
         /\ tracksWithVibes' = IF mounted
                               THEN enhancedTracks \o SubSeq(aTracks, aIdx + 1, Len(aTracks))
                               ELSE tracksWithVibes
         /\ aPc' = "failed"
         /\ UNCHANGED <<enhancedTracks, playlist, loading, clustered>>
    ELSE /\ enhancedTracks' = Append(enhancedTracks,
                [aTracks[aIdx + 1] EXCEPT !.vibe = <<analyzeTrackVibe(trackInfo, artistInfo)>>])
         /\ aPc' = "delay"
         /\ UNCHANGED screenVars

\* after Promise.all of analyzeTrackVibe: the vibe is pushed and the timer set;
\* or analyzeTrackVibe throws: the catch block shows the error and the finally
\* block calls setAnalyzing(false) (dropped when the screen is unmounted)
AfterLookups(trackInfo, artistInfo) ==
    IF analyzeTrackVibeThrows(trackInfo, artistInfo)
    THEN /\ errors' = Append(errors, "Analysis Error")
         /\ analyzing' = (~mounted /\ analyzing)
         /\ aPc' = "failed"
         /\ UNCHANGED <<enhancedTracks, playlist, tracksWithVibes, loading, clustered>>
    ELSE /\ enhancedTracks' = Append(enhancedTracks,
                [aTracks[aIdx + 1] EXCEPT !.vibe = <<analyzeTrackVibe(trackInfo, artistInfo)>>])
         /\ aPc' = "delay"
         /\ UNCHANGED screenVars

\* the track.getInfo request of track i completes
TrackLookupReturns ==
    /\ aPc = "lookups"
    /\ aTrackLookup.state = "pending"
    /\ \E response \in Responses(SampleTrackInfos) :
        LET info == getLastFmInfo(response)
        IN  /\ aTrackLookup' = DoneLookup(response, info)
            /\ UNCHANGED aArtistLookup
            /\ IF aArtistLookup.state = "done"
               THEN AfterLookups(info, aArtistLookup.info)
               ELSE UNCHANGED <<enhancedTracks, aPc, screenVars>>
    /\ UNCHANGED <<aTracks, aIdx, aK, aKMeansCalls, aClusters, ingestVars,
                   featVars, kmVars, lblVars,
                   navVars, authVars>>

\* the artist.getInfo request of track i completes
ArtistLookupReturns ==
    /\ aPc = "lookups"
    /\ aArtistLookup.state = "pending"
    /\ \E response \in Responses(SampleArtistInfos) :
        LET info == getLastFmInfo(response)
        IN  /\ aArtistLookup' = DoneLookup(response, info)
            /\ UNCHANGED aTrackLookup
            /\ IF aTrackLookup.state = "done"
               THEN AfterLookups(aTrackLookup.info, info)
               ELSE UNCHANGED <<enhancedTracks, aPc, screenVars>>
    /\ UNCHANGED <<aTracks, aIdx, aK, aKMeansCalls, aClusters, ingestVars,
                   featVars, kmVars, lblVars,
                   navVars, authVars>>

NextTrackWhileInFlight ==
    /\ aPc = "lookups"
    /\ aTrackLookup.state = "done" \/ aArtistLookup.state = "done"
    /\ aIdx + 1 < Len(aTracks)
    /\ aIdx' = aIdx + 1
    /\ aTrackLookup' = PendingLookup
    /\ aArtistLookup' = PendingLookup
    /\ enhancedTracks' = Append(enhancedTracks, aTracks[aIdx + 1])
    /\ UNCHANGED <<aPc, aTracks, aK, aKMeansCalls, aClusters, screenVars,
                   ingestVars, featVars, kmVars, lblVars,
                   navVars, authVars>>

NextTrackSkipsATrack ==
    /\ aPc = "delay"
    /\ aIdx + 1 < Len(aTracks)
    /\ aIdx' = Min(aIdx + 2, Len(aTracks) - 1)
    /\ aTrackLookup' = PendingLookup
    /\ aArtistLookup' = PendingLookup
    /\ aPc' = "lookups"
    /\ UNCHANGED <<aTracks, enhancedTracks, aK, aKMeansCalls, aClusters, screenVars,
                   ingestVars, featVars, kmVars, lblVars,
                   navVars, authVars>>

\* the 250 ms timer fires with tracks left: the next track's lookups are issued
NextTrack ==
    /\ aPc = "delay"
    /\ aIdx + 1 < Len(aTracks)
    /\ aIdx' = aIdx + 1
    /\ aTrackLookup' = PendingLookup
    /\ aArtistLookup' = PendingLookup
    /\ aPc' = "lookups"
    /\ UNCHANGED <<aTracks, enhancedTracks, aK, aKMeansCalls, aClusters, screenVars,
                   ingestVars, featVars, kmVars, lblVars,
                   navVars, authVars>>

\* the 250 ms timer fires after the last track: cluster count, kMeans, setState
\* (React drops the state updates of an unmounted component)
FinishAnalysis ==
    /\ aPc = "delay"
    /\ aIdx + 1 >= Len(aTracks)
    /\ LET optimalClusters == OptimalClusters(enhancedTracks)
       IN  \E randomVectors \in [1..optimalClusters -> AnRandomVectors] :
              \E clusters \in {kMeans(Features(enhancedTracks), randomVectors)} :
                  /\ aK' = optimalClusters
                  /\ aKMeansCalls' = aKMeansCalls + 1
                  /\ aClusters' = clusters
                  /\ tracksWithVibes' = IF mounted
                                        THEN ClusteredTracks(enhancedTracks, clusters)
                                        ELSE tracksWithVibes
    /\ clustered' = (mounted \/ clustered)
    /\ analyzing' = (~mounted /\ analyzing)
    /\ aPc' = "done"
    /\ UNCHANGED <<aTracks, enhancedTracks, aIdx, aTrackLookup, aArtistLookup, playlist,
                   loading, errors, ingestVars, featVars, kmVars, lblVars,
                   navVars, authVars>>

ResetKeepsVibes ==
    /\ mounted
    /\ clustered
    /\ clustered' = FALSE
    /\ tracksWithVibes' =
           [i \in 1..Len(tracksWithVibes) |->
               [tracksWithVibes[i] EXCEPT !.cluster = <<>>]]
    /\ UNCHANGED <<playlist, loading, analyzing, errors, ingestVars, featVars, kmVars,
                   anVars, lblVars,
                   navVars, authVars>>

\* the button "Reset" (shown while clustered) is pressed
Reset ==
    /\ mounted
    /\ clustered
    /\ clustered' = FALSE
    /\ tracksWithVibes' =
           [i \in 1..Len(tracksWithVibes) |->
               [tracksWithVibes[i] EXCEPT !.cluster = <<>>, !.vibe = <<>>]]
    /\ UNCHANGED <<playlist, loading, analyzing, errors, ingestVars, featVars, kmVars,
                   anVars, lblVars,
                   navVars, authVars>>

\* the button "Back" is pressed: router.back() unmounts the screen; no effect
\* of the component has a cleanup and the running analysis is not told
NavigateAway ==
    /\ mounted
    /\ mounted' = FALSE
    /\ UNCHANGED <<ingestVars, screenVars, featVars, kmVars, anVars, lblVars, authVars>>

\* the items of a playlist of n valid tracks
ValidItems(n) ==
    [i \in 1..n |->
        [track |-> <<[id |-> ((i - 1) % 2) + 1, type |-> "track", vibe |-> <<>>,
                      cluster |-> <<>>]>>]]

\* the screen after fetchPlaylistDetails has loaded the playlist
LoadedPlaylist ==
    /\ pc = "loaded"
    /\ url = <<>>
    /\ allTracks = ValidTracks(items)
    /\ requests = [i \in 1..Max(1, (Len(items) + PageLimit - 1) \div PageLimit)
                      |-> (i - 1) * PageLimit]
    /\ inFlight = 0
    /\ responses = [i \in 1..(Len(requests) + 1) |-> "ok"]
    /\ playlist = <<"playlist">>
    /\ tracksWithVibes = allTracks
    /\ loading = FALSE
    /\ analyzing = FALSE
    /\ clustered = FALSE
    /\ errors = <<>>
    /\ mounted = TRUE

InitAnalysis ==
    /\ items \in {ValidItems(n) : n \in 1..MaxTracks}
    /\ LoadedPlaylist
    /\ IdleAuth
    /\ IdleAnalysis
    /\ IdleFeatures
    /\ IdleKMeans
    /\ IdleLabel

NextAnalysis ==
    \/ AnalyzeStart
    \/ TrackLookupReturns
    \/ ArtistLookupReturns
    \/ NextTrack
    \/ FinishAnalysis
    \/ Reset
    \/ NavigateAway

SpecAnalysis == InitAnalysis /\ [][NextAnalysis]_vars

(***************************************************************************)
(* One application of getVibeClusterName to any member list                *)
(***************************************************************************)
\* vibes of member tracks: two analyzed ones and one whose category is not a
\* key of VIBE_CATEGORIES
LabelVibes ==
    {analyzeTrackVibe(<<[tags |-> <<[name |-> "Dance"], [name |-> "happy"]>>,
                        playcount |-> <<1, 0, 0, 0>>]>>, <<>>),
     analyzeTrackVibe(<<[tags |-> <<[name |-> "sad"]>>, playcount |-> <<>>]>>, <<>>),
     [analyzeTrackVibe(<<>>, <<>>) EXCEPT !.vibe_category = "mixed"]}

LabelTracks ==
    [id : {1}, type : {"track"},
     vibe : {<<>>} \cup {<<v>> : v \in LabelVibes},
     cluster : {<<>>, <<0>>, <<1>>}]

ApplyGetVibeClusterName ==
    /\ lLabel = <<>>
    /\ lLabel' = <<getVibeClusterName(lId, lTracks)>>
    /\ UNCHANGED <<lId, lTracks, ingestVars, screenVars, featVars, kmVars, anVars,
                   navVars, authVars>>

InitLabel ==
    /\ lId \in 0..(MaxK - 1)
    /\ lTracks \in UNION {[1..n -> LabelTracks] : n \in 0..MaxMembers}
    /\ lLabel = <<>>
    /\ items = <<>>
    /\ IdleIngest
    /\ InitScreen
    /\ IdleAuth
    /\ IdleFeatures
    /\ IdleKMeans
    /\ IdleAnalysis

NextLabel == ApplyGetVibeClusterName

SpecLabel == InitLabel /\ [][NextLabel]_vars

(***************************************************************************)
(* AuthContext: makeAuthenticatedRequest and refreshAccessToken            *)
(***************************************************************************)
SessionExpired == "Session expired, please log in again"
NoAccessToken == "No access token available"
NetworkRequestFailed == "Network request failed"

Thrown(message) == [kind |-> "thrown", message |-> message, status |-> 0]
Returned(status) == [kind |-> "returned", message |-> "", status |-> status]

\* what fetch does with a request to the playlist service: it rejects (the
\* network failed) or resolves with a response of some status
FetchOutcomes == {"networkError", "200", "401", "403", "404", "429", "500"}
Status(outcome) ==
    CASE outcome = "200" -> 200
      [] outcome = "401" -> 401
      [] outcome = "403" -> 403
      [] outcome = "404" -> 404
      [] outcome = "429" -> 429
      [] outcome = "500" -> 500

\* what the token endpoint does with the refresh request: it answers ok with
\* a new access token (and maybe a new refresh token), answers not ok, or the
\* request rejects
RefreshOutcomes == {"ok", "okRotated", "notOk", "networkError"}

\* the endpoints the application calls through makeAuthenticatedRequest
Urls == {"/me/playlists", "/playlists/id", "/playlists/id/tracks"}

\* one request of a call: which request, the url, the token it carried and
\* what it met
Event(request, u, token, outcome) ==
    [request |-> request, url |-> u, token |-> token, outcome |-> outcome]

\* the calls made so far in the caller's run
RunCalls == Cardinality({i \in 1..Len(mRun) : mRun[i].request = "call"})

\* makeAuthenticatedRequest(url) is called, by a caller that has just rendered
\* (its function instance holds the current accessToken) or as the next call
\* of a running loop (the instance, and the accessToken it captured, are the
\* ones of the loop's first call; the loop goes on after an ok response only)
MakeAuthenticatedRequest ==
    /\ mPc = "idle"
    /\ \E u \in Urls, fresh \in BOOLEAN :
        \E bound \in {IF fresh THEN accessToken ELSE mBound} :
            /\ fresh \/ (mResult = <<Returned(200)>> /\ RunCalls + 1 < mCalls)
            /\ mBound' = bound
            /\ mRun' = IF fresh THEN <<>> ELSE mRun \o mEvents
            /\ mEvents' = <<Event("call", u, bound, "called")>>
            /\ IF bound = <<>>
               THEN /\ mResult' = <<Thrown(NoAccessToken)>>
                    /\ mPc' = "idle"
               ELSE /\ mResult' = <<>>
                    /\ mPc' = "fetch"
    /\ UNCHANGED <<accessToken, refreshToken, isLoggedIn, ingestVars, screenVars,
                   featVars, kmVars, anVars, lblVars, navVars, mCalls, provVars>>

FetchReturnsRefreshesOn403 ==
    /\ mPc = "fetch"
    /\ \E outcome \in FetchOutcomes :
        /\ mEvents' = Append(mEvents, Event("fetch", mEvents[1].url, mBound, outcome))
        /\ IF outcome = "networkError"
           THEN mResult' = <<Thrown(NetworkRequestFailed)>> /\ mPc' = "idle"
           ELSE IF outcome \notin {"401", "403"}
           THEN mResult' = <<Returned(Status(outcome))>> /\ mPc' = "idle"
           ELSE IF refreshToken # <<>>
           THEN mResult' = <<>> /\ mPc' = "refresh"
           ELSE mResult' = <<Thrown(SessionExpired)>> /\ mPc' = "idle"
    /\ UNCHANGED <<accessToken, refreshToken, isLoggedIn, mBound, mRun, ingestVars,
                   screenVars, featVars, kmVars, anVars, lblVars, navVars, mCalls, provVars>>

\* the first fetch settles; it carried the accessToken of the instance
FetchReturns ==
    /\ mPc = "fetch"
    /\ \E outcome \in FetchOutcomes :
        /\ mEvents' = Append(mEvents, Event("fetch", mEvents[1].url, mBound, outcome))
        /\ IF outcome = "networkError"
           THEN mResult' = <<Thrown(NetworkRequestFailed)>> /\ mPc' = "idle"
           ELSE IF outcome # "401"
           THEN mResult' = <<Returned(Status(outcome))>> /\ mPc' = "idle"
           ELSE IF refreshToken # <<>>
           THEN mResult' = <<>> /\ mPc' = "refresh"
           ELSE mResult' = <<Thrown(SessionExpired)>> /\ mPc' = "idle"
    /\ UNCHANGED <<accessToken, refreshToken, isLoggedIn, mBound, mRun, ingestVars,
                   screenVars, featVars, kmVars, anVars, lblVars, navVars, mCalls, provVars>>

\* refreshAccessToken once the token endpoint has settled: an ok answer's
\* tokens are stored (the access token is returned to the caller); on any
\* other outcome the store is cleared and the provider is logged out
refreshAccessToken(outcome) ==
    IF outcome \in {"ok", "okRotated"}
    THEN /\ storedToken' = <<"new">>
         /\ refreshToken' = IF outcome = "okRotated" THEN <<"rotated">> ELSE refreshToken
         /\ UNCHANGED isLoggedIn
    ELSE /\ storedToken' = <<>>
         /\ refreshToken' = <<>>
         /\ accessToken' = <<>>
         /\ isLoggedIn' = FALSE

\* refreshAccessToken settles, and makeAuthenticatedRequest goes on
RefreshReturns ==
    /\ mPc = "refresh"
    /\ \E outcome \in RefreshOutcomes :
        /\ mEvents' = Append(mEvents, Event("refresh", "/api/token", refreshToken, outcome))
        /\ refreshAccessToken(outcome)
        /\ IF outcome \in {"ok", "okRotated"}
           THEN /\ accessToken' = <<"new">>
                /\ mResult' = <<>>
                /\ mPc' = "retry"
           ELSE /\ mResult' = <<Thrown(SessionExpired)>>
                /\ mPc' = "idle"
    /\ UNCHANGED <<mBound, mRun, authLoading, cPc, cToken, cRefresh, cValidated,
                   ingestVars, screenVars, featVars, kmVars, anVars, lblVars, navVars, mCalls>>

\* the retried fetch settles: `return fetch(...)`, whatever the response; it
\* carried newToken, which setAccessToken has made the accessToken
RetryReturns ==
    /\ mPc = "retry"
    /\ \E outcome \in FetchOutcomes :
        /\ mEvents' = Append(mEvents, Event("retry", mEvents[1].url, accessToken, outcome))
        /\ mResult' = <<IF outcome = "networkError" THEN Thrown(NetworkRequestFailed)
                        ELSE Returned(Status(outcome))>>
        /\ mPc' = "idle"
    /\ UNCHANGED <<accessToken, refreshToken, isLoggedIn, mBound, mRun, ingestVars,
                   screenVars, featVars, kmVars, anVars, lblVars, navVars, mCalls, provVars>>

InitAuth ==
    /\ accessToken \in {<<>>, <<"old">>}
    /\ refreshToken \in {<<>>, <<"refresh">>}
    /\ isLoggedIn = (accessToken # <<>>)
    /\ mPc = "idle"
    /\ mEvents = <<>>
    /\ mResult = <<>>
    /\ mBound = accessToken
    /\ mRun = <<>>
    /\ mCalls \in 1..MaxRunCalls
    /\ authLoading = FALSE
    /\ storedToken = accessToken
    /\ cPc = "idle"
    /\ cToken = <<>>
    /\ cRefresh = <<>>
    /\ cValidated = <<>>
    /\ items = <<>>
    /\ IdleIngest
    /\ InitScreen
    /\ IdleFeatures
    /\ IdleKMeans
    /\ IdleAnalysis
    /\ IdleLabel

NextAuth ==
    \/ MakeAuthenticatedRequest
    \/ FetchReturns
    \/ RefreshReturns
    \/ RetryReturns

SpecAuth == InitAuth /\ [][NextAuth]_vars

(***************************************************************************)
(* AuthProvider: checkAuth, the login screen's exchangeCodeForTokens and   *)
(* logout.  The state updates a function makes between two awaits are      *)
(* applied together.                                                       *)
(***************************************************************************)
\* what validateToken's request to /me meets; validateToken is true on "ok"
ValidateOutcomes == {"ok", "401", "500", "networkError"}

\* checkAuth is called (by the mount effect, or by exchangeCodeForTokens): it
\* sets authLoading and reads the two stored tokens
CheckAuth ==
    /\ cPc = "start"
    /\ cValidated' = <<>>
    /\ IF storedToken = <<>>
       THEN /\ isLoggedIn' = FALSE
            /\ authLoading' = FALSE
            /\ cPc' = "idle"
            /\ UNCHANGED <<cToken, cRefresh>>
       ELSE /\ authLoading' = TRUE
            /\ cToken' = storedToken
            /\ cRefresh' = refreshToken
            /\ cPc' = "validate"
            /\ UNCHANGED isLoggedIn
    /\ UNCHANGED <<accessToken, refreshToken, storedToken, mPc, mEvents, mResult, mBound,
                   mRun, ingestVars, screenVars, featVars, kmVars, anVars, lblVars,
                   navVars, mCalls>>

\* validateToken(storedToken) settles
CheckAuthValidated ==
    /\ cPc = "validate"
    /\ \E outcome \in ValidateOutcomes :
        IF outcome = "ok"
        THEN /\ accessToken' = cToken
             /\ isLoggedIn' = TRUE
             /\ cValidated' = cToken
             /\ authLoading' = FALSE
             /\ cPc' = "idle"
             /\ UNCHANGED <<storedToken, refreshToken>>
        ELSE IF cRefresh # <<>>
        THEN /\ cPc' = "refresh"
             /\ UNCHANGED <<accessToken, isLoggedIn, cValidated, authLoading, storedToken,
                            refreshToken>>
        ELSE /\ storedToken' = <<>>
             /\ refreshToken' = <<>>
             /\ isLoggedIn' = FALSE
             /\ authLoading' = FALSE
             /\ cPc' = "idle"
             /\ UNCHANGED <<accessToken, cValidated>>
    /\ UNCHANGED <<cToken, cRefresh, mPc, mEvents, mResult, mBound, mRun, ingestVars,
                   screenVars, featVars, kmVars, anVars, lblVars, navVars, mCalls>>

\* refreshAccessToken(storedRefresh) settles within checkAuth
CheckAuthRefreshed ==
    /\ cPc = "refresh"
    /\ \E outcome \in RefreshOutcomes :
        /\ refreshAccessToken(outcome)
        /\ IF outcome \in {"ok", "okRotated"}
           THEN /\ cToken' = <<"new">>
                /\ cPc' = "revalidate"
                /\ UNCHANGED <<accessToken, authLoading>>
           ELSE /\ authLoading' = FALSE
                /\ cPc' = "idle"
                /\ UNCHANGED cToken
    /\ UNCHANGED <<cRefresh, cValidated, mPc, mEvents, mResult, mBound, mRun, ingestVars,
                   screenVars, featVars, kmVars, anVars, lblVars, navVars, mCalls>>

CheckAuthRevalidatedTrusting ==
    /\ cPc = "revalidate"
    /\ \E outcome \in ValidateOutcomes :
        /\ accessToken' = cToken
        /\ isLoggedIn' = TRUE
        /\ cValidated' = IF outcome = "ok" THEN cToken ELSE cValidated
    /\ authLoading' = FALSE
    /\ cPc' = "idle"
    /\ UNCHANGED <<storedToken, refreshToken, cToken, cRefresh, mPc, mEvents, mResult,
                   mBound, mRun, ingestVars, screenVars, featVars, kmVars, anVars,
                   lblVars, navVars, mCalls>>

\* validateToken(newToken) settles
CheckAuthRevalidated ==
    /\ cPc = "revalidate"
    /\ \E outcome \in ValidateOutcomes :
        IF outcome = "ok"
        THEN /\ accessToken' = cToken
             /\ isLoggedIn' = TRUE
             /\ cValidated' = cToken
        ELSE UNCHANGED <<accessToken, isLoggedIn, cValidated>>
    /\ authLoading' = FALSE
    /\ cPc' = "idle"
    /\ UNCHANGED <<storedToken, refreshToken, cToken, cRefresh, mPc, mEvents, mResult,
                   mBound, mRun, ingestVars, screenVars, featVars, kmVars, anVars,
                   lblVars, navVars, mCalls>>

\* the login screen (shown while logged out and not loading) gets an
\* authorization code and exchangeCodeForTokens stores the tokens of the
\* answer, the refresh token if there is one, before it calls checkAuth
ExchangeCodeForTokens ==
    /\ cPc = "idle"
    /\ ~authLoading
    /\ ~isLoggedIn
    /\ storedToken' = <<"login">>
    /\ \E withRefresh \in BOOLEAN :
           refreshToken' = IF withRefresh THEN <<"refresh">> ELSE refreshToken
    /\ cPc' = "start"
    /\ UNCHANGED <<accessToken, isLoggedIn, authLoading, cToken, cRefresh, cValidated, mPc,
                   mEvents, mResult, mBound, mRun, ingestVars, screenVars, featVars,
                   kmVars, anVars, lblVars, navVars, mCalls>>

\* the home screen (shown while logged in) calls logout
Logout ==
    /\ isLoggedIn
    /\ ~authLoading
    /\ storedToken' = <<>>
    /\ refreshToken' = <<>>
    /\ accessToken' = <<>>
    /\ isLoggedIn' = FALSE
    /\ UNCHANGED <<authLoading, cPc, cToken, cRefresh, cValidated, mPc, mEvents, mResult,
                   mBound, mRun, ingestVars, screenVars, featVars, kmVars, anVars,
                   lblVars, navVars, mCalls>>

\* the provider as it mounts, with whatever an earlier session left in the
\* store
InitProvider ==
    /\ accessToken = <<>>
    /\ isLoggedIn = FALSE
    /\ authLoading = TRUE
    /\ storedToken \in {<<>>, <<"old">>}
    /\ refreshToken \in {<<>>, <<"refresh">>}
    /\ cPc = "start"
    /\ cToken = <<>>
    /\ cRefresh = <<>>
    /\ cValidated = <<>>
    /\ mPc = "idle"
    /\ mEvents = <<>>
    /\ mResult = <<>>
    /\ mBound = <<>>
    /\ mRun = <<>>
    /\ mCalls = 1
    /\ items = <<>>
    /\ IdleIngest
    /\ InitScreen
    /\ IdleFeatures
    /\ IdleKMeans
    /\ IdleAnalysis
    /\ IdleLabel

NextProvider ==
    \/ CheckAuth
    \/ CheckAuthValidated
    \/ CheckAuthRefreshed
    \/ CheckAuthRevalidated
    \/ ExchangeCodeForTokens
    \/ Logout
    \/ MakeAuthenticatedRequest
    \/ FetchReturns
    \/ RefreshReturns
    \/ RetryReturns

SpecProvider == InitProvider /\ [][NextProvider]_vars


(***************************************************************************)
(* Claims on the track ingestion                                           *)
(***************************************************************************)
FailsFilter(item) ==
    \/ item.track = <<>>
    \/ item.track[1].id = 0
    \/ item.track[1].type # "track"

PassingIndices == {i \in 1..Len(items) : ~FailsFilter(items[i])}

RECURSIVE PassingFrom(_)
\* the embedded tracks of items[i..] that pass the filter, in order
PassingFrom(i) ==
    IF i > Len(items) THEN <<>>
    ELSE IF i \in PassingIndices THEN <<items[i].track[1]>> \o PassingFrom(i + 1)
         ELSE PassingFrom(i + 1)

\* C1: after an ingestion whose responses were all successful, the track list
\* holds, in arrival order, exactly the items with an embedded track, an id and
\* type "track"; its length is the number of items minus those failing the filter.
C1_IngestedExactlyValid ==
    pc = "loaded" =>
        /\ tracksWithVibes = PassingFrom(1)
        /\ Len(tracksWithVibes) =
               Len(items) - Cardinality({i \in 1..Len(items) : FailsFilter(items[i])})

C1_Witness ==
    /\ pc = "loaded"
    /\ Len(requests) = 3
    /\ Len(tracksWithVibes) = 3
    /\ \E i \in 1..Len(items) : items[i].track = <<>>
    /\ \E i \in 1..Len(items) : items[i].track # <<>> /\ items[i].track[1].id = 0
    /\ \E i \in 1..Len(items) : items[i].track # <<>> /\ items[i].track[1].type = "episode"

\* pages the service cuts the playlist into (an empty playlist has one empty page)
NumPages == Max(1, (Len(items) + PageLimit - 1) \div PageLimit)

PageResponses == IF responses = <<>> THEN 0 ELSE Len(responses) - 1

\* C2: one track-page request per page, each issued only after the previous
\* page's response, following the next pointer, and none after a null pointer:
\* a playlist of 3 full pages causes exactly 3 page requests.
C2_OneSequentialRequestPerPage ==
    /\ inFlight \in {0, 1}
    /\ Len(requests) = PageResponses + inFlight
    /\ \A i \in 1..Len(requests) : requests[i] = (i - 1) * PageLimit
    /\ Len(requests) <= NumPages
    /\ pc = "loaded" => Len(requests) = NumPages /\ inFlight = 0

C2_Witness ==
    /\ pc = "loaded"
    /\ Len(items) = 3 * PageLimit
    /\ Len(requests) = 3

Occurrences(s, id) == Cardinality({i \in 1..Len(s) : s[i].id = id})

C4_AllOrNothing ==
    pc = "failed" =>
        /\ responses[Len(responses)] # "ok"
        /\ \A i \in 1..(Len(responses) - 1) : responses[i] = "ok"
        /\ Len(requests) = PageResponses
        /\ inFlight = 0
        /\ errors = <<"Playlist Error">>
        /\ tracksWithVibes = <<>>
        /\ loading = FALSE

C4_Witness ==
    /\ pc = "failed"
    /\ Len(requests) = 2
    /\ allTracks # <<>>
    /\ responses[Len(responses)] = "notOk"

(***************************************************************************)
(* Claims on the feature extraction                                        *)
(***************************************************************************)
InUnit(x) == 0 <= x /\ x <= Scale

C7_ConvergedIsFixedPoint ==
    kmPc = "converged" =>
        \A p \in 1..Len(kmData) :
            /\ \A c \in 1..kmK :
                   ~Nearer(kmData[p], kmCentroids[c], kmCentroids[kmClusters[p] + 1])
            /\ \A c \in 1..kmClusters[p] :
                   Nearer(kmData[p], kmCentroids[kmClusters[p] + 1], kmCentroids[c])

C7_Witness ==
    /\ kmPc = "converged"
    /\ kmIter >= 1
    /\ \E p, q \in 1..Len(kmData) : kmClusters[p] # kmClusters[q]

\* C8 as stated: the churn never rises from one iteration to the next.
C8_ChurnNonIncreasing ==
    \A i \in 1..(Len(kmChurn) - 1) : kmChurn[i + 1] <= kmChurn[i]

\* C8 amended: the churn may rise between consecutive iterations; it is at
\* least 1 in every iteration that continues the loop, and the run ends at the
\* first iteration whose churn is 0 or after maxIterations iterations.
C8_ChurnPositiveUntilStop ==
    /\ \A i \in 1..Len(kmChurn) :
           (kmChurn[i] = 0) <=> (i = Len(kmChurn) /\ kmPc = "converged")
    /\ Len(kmChurn) <= MaxIterations
    /\ kmPc = "capped" => Len(kmChurn) = MaxIterations
    /\ kmPc = "loop" => Len(kmChurn) < MaxIterations

C8_Witness ==
    /\ kmPc # "loop"
    /\ Len(kmChurn) >= 2
    /\ kmChurn[2] > kmChurn[1]


(***************************************************************************)
(* Claims on the analysis pipeline and the labeler                         *)
(***************************************************************************)
\* C6: the assignment kMeans returns has exactly one cluster id per input
\* vector, index-aligned with the tracks, and every id lies in [0, k).
C6_OneClusterIdPerTrack ==
    aPc = "done" =>
        /\ Len(aClusters) = Len(aTracks)
        /\ \A i \in 1..Len(aClusters) : aClusters[i] \in 0..(aK - 1)
        /\ clustered =>
               /\ Len(tracksWithVibes) = Len(aTracks)
               /\ \A i \in 1..Len(aTracks) :
                      /\ tracksWithVibes[i].id = aTracks[i].id
                      /\ tracksWithVibes[i].cluster = <<aClusters[i]>>

C6_Witness ==
    /\ aPc = "done"
    /\ clustered
    /\ aK = 3
    /\ {aClusters[i] : i \in 1..Len(aClusters)} = {0, 1, 2}

\* C9: with fewer tracks than the chosen cluster count the pipeline reports an
\* insufficient-data error, never invokes kMeans, and leaves the ingested track
\* list unchanged and unclustered.
C9_InsufficientDataReported ==
    (aPc = "done" /\ Len(aTracks) < aK) =>
        /\ aKMeansCalls = 0
        /\ Len(errors) = 1
        /\ ~clustered
        /\ tracksWithVibes = aTracks

\* C10: getVibeClusterName returns a non-empty label for every cluster id and
\* member list, and "Group {clusterId+1}" when no member of the cluster has a
\* vibe.
C10_LabelerTotal ==
    lLabel # <<>> =>
        /\ Len(lLabel[1].text) > 0
        /\ Len(lLabel[1].emoji) > 0
        /\ (\A i \in 1..Len(lTracks) :
                lTracks[i].cluster = <<lId>> => lTracks[i].vibe = <<>>)
           => lLabel[1].text = "Group " \o ToString(lId + 1)

C10_Witness ==
    /\ lLabel # <<>>
    /\ lId = 2
    /\ Len(lTracks) = 2
    /\ lTracks[1].vibe # <<>>
    /\ lTracks[1].cluster = <<1>>
    /\ lTracks[2].cluster = <<>>
    /\ lLabel[1].text = "Group 3"

(***************************************************************************)
(* Claims on the tag lookups of the analysis run                           *)
(***************************************************************************)
\* the tag names of what a lookup resolved to, lower-cased
LookupTagNames(info) ==
    {ToLowerCase(FieldOf(info, "tags")[i].name) : i \in 1..Len(FieldOf(info, "tags"))}

\* the feature vector of a track about which nothing is known
NoTagsVibe ==
    [energy |-> Tenths(5), mood |-> Tenths(5), popularity |-> 0, era |-> Tenths(5),
     mainstream |-> 0, vibe_category |-> "focus", primary_tags |-> <<>>]

\* C11: a track-level or artist-level lookup that fails (fetch throws, or the
\* answer is not ok) contributes no tags, the track still gets a feature
\* vector, and the run raises nothing because of it (a run fails only on what
\* a lookup that answered ok brought) and ends with every track clustered.
C11_FailedLookupAbsorbed ==
    /\ aPc = "failed" =>
           \/ aTrackLookup.kind = "ok" /\ analyzeTrackVibeThrows(aTrackLookup.info, <<>>)
           \/ aArtistLookup.kind = "ok" /\ analyzeTrackVibeThrows(<<>>, aArtistLookup.info)
    /\ aPc \in {"delay", "done"} =>
           LET vibe == enhancedTracks[aIdx + 1].vibe
               tags == {vibe[1].primary_tags[i] : i \in 1..Len(vibe[1].primary_tags)}
           IN  /\ Len(enhancedTracks) = aIdx + 1
               /\ vibe # <<>>
               /\ aTrackLookup.kind # "ok" => tags \subseteq LookupTagNames(aArtistLookup.info)
               /\ aArtistLookup.kind # "ok" => tags \subseteq LookupTagNames(aTrackLookup.info)
               /\ (aTrackLookup.kind # "ok" /\ aArtistLookup.kind # "ok")
                      => vibe[1] = NoTagsVibe
    /\ aPc = "done" =>
           /\ clustered => Len(tracksWithVibes) = Len(aTracks)
           /\ \A i \in 1..Len(tracksWithVibes) :
                  clustered => /\ tracksWithVibes[i].vibe # <<>>
                               /\ tracksWithVibes[i].cluster # <<>>

\* the track lookup of the second track answered without ok, its artist
\* lookup brought a tag, and the run finished with the tracks clustered
C11_Witness ==
    /\ aPc = "done"
    /\ clustered
    /\ aIdx >= 1
    /\ aTrackLookup.kind = "notOk"
    /\ aArtistLookup.kind = "ok"
    /\ tracksWithVibes[aIdx + 1].vibe[1].primary_tags = <<"chill">>

(***************************************************************************)
(* Claims on the shapes of the tag answers                                 *)
(***************************************************************************)
\* C12: for a successful answer of any shape (tag field absent or a single
\* object, a tag entry null or without a name, statistics missing)
\* analyzeTrackVibe returns a feature vector and never throws.
C12_MalformedNeverThrows ==
    fVibe # <<>> => "threw" \notin DOMAIN fVibe[1]

\* a request to the tag service is in flight
TrackLookupInFlight == aTrackLookup.state = "pending"
ArtistLookupInFlight == aArtistLookup.state = "pending"

\* C13 as stated: no two requests to the tag service are in flight together.
C13_NoTwoInFlight == ~(TrackLookupInFlight /\ ArtistLookupInFlight)

\* C13 amended: a request is issued only while no request is in flight, and
\* only as one of the pair (track lookup, artist lookup) of one track; after
\* the first track the pair is issued from the 250 ms delay.
C13_IssuedInPairsWhenIdle ==
    [][(TrackLookupInFlight' /\ aTrackLookup.state # "pending")
       \/ (ArtistLookupInFlight' /\ aArtistLookup.state # "pending")
       => /\ ~TrackLookupInFlight
          /\ ~ArtistLookupInFlight
          /\ TrackLookupInFlight'
          /\ ArtistLookupInFlight'
          /\ aPc # "lookups"
          /\ aIdx' > 0 => aPc = "delay"]_vars

\* both lookups of the second track are in flight
C13_Witness ==
    /\ aIdx = 1
    /\ TrackLookupInFlight
    /\ ArtistLookupInFlight

\* C14: lookups are issued one track at a time in playlist order: those in
\* flight belong to the first track without a vibe, and the run moves to track
\* i+1 only from the delay that follows the return of both lookups of track i.
C14_OneTrackAtATime ==
    [][/\ (TrackLookupInFlight' \/ ArtistLookupInFlight')
          => /\ aPc' = "lookups"
             /\ Len(enhancedTracks') = aIdx'
             /\ \A i \in 1..aIdx' : /\ enhancedTracks'[i].id = aTracks'[i].id
                                    /\ enhancedTracks'[i].vibe # <<>>
       /\ (aIdx' # aIdx /\ aIdx' # 0)
          => /\ aIdx' = aIdx + 1
             /\ aPc = "delay"
             /\ aTrackLookup.state = "done"
             /\ aArtistLookup.state = "done"
             /\ Len(enhancedTracks) = aIdx']_vars

\* the third track's artist lookup is in flight while its track lookup has
\* returned: only lookups of one track overlap
C14_Witness ==
    /\ aIdx = 2
    /\ aTrackLookup.state = "done"
    /\ ArtistLookupInFlight

(***************************************************************************)
(* Claims on the neutral defaults                                          *)
(***************************************************************************)
\* a lookup result with no tags and no statistics
NoTagsNoStatistics(info) ==
    \/ info = <<>>
    \/ /\ info[1].tags = <<>>
       /\ \A f \in DOMAIN info[1] \ {"tags"} : info[1][f] = <<>>

\* C15: when both lookups of a track return no tags and no statistics, each
\* of energy, mood, popularity, era and mainstream is the neutral 0.5.
C15_NoInformationIsNeutral ==
    (fVibe # <<>> /\ NoTagsNoStatistics(fTrackInfo) /\ NoTagsNoStatistics(fArtistInfo))
        => /\ fVibe[1].energy = Tenths(5)
           /\ fVibe[1].mood = Tenths(5)
           /\ fVibe[1].popularity = Tenths(5)
           /\ fVibe[1].era = Tenths(5)
           /\ fVibe[1].mainstream = Tenths(5)

(***************************************************************************)
(* Claims on the groups shown after clustering                             *)
(***************************************************************************)
\* the groups the screen shows
Groups == groupedTracks(clustered, tracksWithVibes)

\* the groups are pairwise disjoint and cover the tracks: every group holds
\* exactly the tracks with its cluster id
GroupsPartitionTracks ==
    /\ \A c \in DOMAIN Groups :
           /\ \A m \in 1..Len(Groups[c]) : Groups[c][m].cluster = <<c>>
           /\ Len(Groups[c]) = Cardinality({i \in 1..Len(tracksWithVibes) :
                                               tracksWithVibes[i].cluster = <<c>>})
    /\ \A i \in 1..Len(tracksWithVibes) : tracksWithVibes[i].cluster[1] \in DOMAIN Groups

\* C16 as stated: the groups shown after clustering (of at least k tracks) are
\* pairwise disjoint, cover all tracks, and there are exactly k of them.
C16_ExactlyKGroups ==
    (clustered /\ Len(tracksWithVibes) >= aK)
        => /\ GroupsPartitionTracks
           /\ Cardinality(DOMAIN Groups) = aK

\* C16 amended: the groups shown are pairwise disjoint, non-empty and cover
\* all tracks; there are at least 1 and at most k of them, and exactly 1 when
\* all feature vectors are equal.
C16_AtMostKGroups ==
    clustered => /\ GroupsPartitionTracks
                 /\ DOMAIN Groups \subseteq 0..(aK - 1)
                 /\ Cardinality(DOMAIN Groups) >= 1
                 /\ \A c \in DOMAIN Groups : Len(Groups[c]) >= 1
                 /\ (\A i, j \in 1..Len(tracksWithVibes) :
                         Features(tracksWithVibes)[i] = Features(tracksWithVibes)[j])
                    => Cardinality(DOMAIN Groups) = 1

\* a playlist of three tracks without any tag, clustered with k = 2, is shown
\* as one group
C16_Witness ==
    /\ clustered
    /\ aK = 2
    /\ Len(tracksWithVibes) = 3
    /\ \A i \in 1..3 : tracksWithVibes[i].vibe = <<NoTagsVibe>>
    /\ Cardinality(DOMAIN Groups) = 1
    /\ Len(Groups[CHOOSE c \in DOMAIN Groups : TRUE]) = 3

(***************************************************************************)
(* Claims on cancellation                                                  *)
(***************************************************************************)
\* a step that issues a request to the tag service
IssuesLookup ==
    \/ TrackLookupInFlight' /\ ~TrackLookupInFlight
    \/ ArtistLookupInFlight' /\ ~ArtistLookupInFlight

\* C17: once the user has navigated away from the screen, the run issues no
\* further request (requests in flight may complete) and stores no results.
C17_AbortStopsRun ==
    [][~mounted => /\ ~IssuesLookup
                   /\ tracksWithVibes' = tracksWithVibes
                   /\ clustered' = clustered]_vars

(***************************************************************************)
(* Claims on authentication failures                                       *)
(***************************************************************************)
\* a request of the call met the outcome
Met(request, outcome) ==
    \E i \in 1..Len(mEvents) :
        mEvents[i].request = request /\ mEvents[i].outcome = outcome

\* the authentication of the call failed for good: a 401 without a refresh
\* token, a 401 whose refresh was refused, or a 401 again on the retry
IrrecoverableAuthFailure ==
    \/ Met("retry", "401")
    \/ Met("fetch", "401") /\ ~\E o \in RefreshOutcomes : Met("refresh", o)
    \/ Met("refresh", "notOk")

\* C18: a call whose authentication irrecoverably fails ends in the
\* session-expired error, and a call that met a network failure is neither
\* reported as an expired session nor logs the user out.
C18_AuthExpiredDistinct ==
    (mPc = "idle" /\ mResult # <<>>)
        => /\ IrrecoverableAuthFailure => mResult[1] = Thrown(SessionExpired)
           /\ (\E r \in {"fetch", "refresh", "retry"} : Met(r, "networkError"))
                  => /\ mResult[1] # Thrown(SessionExpired)
                     /\ isLoggedIn

(***************************************************************************)
(* Claims on the choice of the cluster count                               *)
(***************************************************************************)
\* the categories that at least two of the analyzed tracks fall in
SupportedCategories(tracks) ==
    {c \in UniqueVibes(tracks) :
        Cardinality({i \in 1..Len(tracks) : tracks[i].vibe[1].vibe_category = c}) >= 2}

\* C19: the cluster count handed to kMeans is the number of distinct
\* categories that at least two analyzed tracks support, clamped to [2, 6].
C19_KCountsSupportedCategories ==
    (aPc = "done" /\ aK > 0) =>
        aK = Min(Max(2, Cardinality(SupportedCategories(enhancedTracks))), 6)

(***************************************************************************)
(* Claims on the label and the category ranges                             *)
(***************************************************************************)
\* the category's energy and mood ranges both bracket the means of the vibes
\* (lo <= sum / n <= hi is lo * n <= sum <= hi * n)
Brackets(category, vibes) ==
    LET n == Len(vibes)
        range == VIBE_CATEGORIES[category]
    IN  /\ range.energy[1] * n <= SumField(vibes, "energy")
        /\ SumField(vibes, "energy") <= range.energy[2] * n
        /\ range.mood[1] * n <= SumField(vibes, "mood")
        /\ SumField(vibes, "mood") <= range.mood[2] * n

MatchingCategories(vibes) == {c \in DOMAIN VIBE_CATEGORIES : Brackets(c, vibes)}

\* C20: when the energy and mood ranges of some canonical category bracket the
\* cluster's mean energy and mean mood, the label is the name of such a
\* category; the most frequent category names the cluster only when no
\* category's ranges match.
C20_LabelFromMatchingRanges ==
    lLabel # <<>> =>
        LET vibes == VibesOfCluster(lId, lTracks)
        IN  (Len(vibes) > 0 /\ MatchingCategories(vibes) # {})
                => \E c \in MatchingCategories(vibes) :
                       lLabel[1].text = Capitalize(c) \o " Vibes"

(***************************************************************************)
(* Claims on a failed analysis                                             *)
(***************************************************************************)
\* no track of the list carries a vibe or a cluster id
NoAnalysisResult(tracks) ==
    \A i \in 1..Len(tracks) : tracks[i].vibe = <<>> /\ tracks[i].cluster = <<>>

\* C21: when the analysis of a track throws, one analysis error is reported,
\* clustered stays false and the track list is the one from before the run,
\* with no vibe and no cluster id of the failed run.
C21_FailedRunShowsNothing ==
    [][(aPc # "failed" /\ aPc' = "failed")
          => /\ errors' = Append(errors, "Analysis Error")
             /\ ~clustered'
             /\ tracksWithVibes' = aTracks
             /\ NoAnalysisResult(tracksWithVibes')]_vars

\* the second track of a run made analyzeTrackVibe throw after the first was
\* analyzed
C21_Witness ==
    /\ aPc = "failed"
    /\ mounted
    /\ Len(enhancedTracks) >= 1
    /\ enhancedTracks[1].vibe # <<>>
    /\ errors = <<"Analysis Error">>
    /\ ~analyzing

(***************************************************************************)
(* Claims on the category a label is built from                            *)
(***************************************************************************)
\* how many of the vibes have the category of the i-th
CountLike(vibes, i) ==
    Cardinality({j \in 1..Len(vibes) : vibes[j].vibe_category = vibes[i].vibe_category})

\* the member whose category is the most frequent, the earliest on a tie
FirstOfMode(vibes) ==
    CHOOSE i \in 1..Len(vibes) :
        /\ \A j \in 1..Len(vibes) : CountLike(vibes, j) <= CountLike(vibes, i)
        /\ \A j \in 1..(i - 1) : CountLike(vibes, j) < CountLike(vibes, i)

\* C22: the label of a cluster is built from the most frequent vibe_category
\* of its analyzed members, the first encountered in member order when
\* several categories share the highest count.
C22_ModeFirstEncountered ==
    lLabel # <<>> =>
        LET vibes == VibesOfCluster(lId, lTracks)
        IN  Len(vibes) > 0 =>
                LET category == vibes[FirstOfMode(vibes)].vibe_category
                IN  IF category \in DOMAIN VIBE_CATEGORIES
                    THEN lLabel[1] = [emoji |-> VIBE_CATEGORIES[category].emoji,
                                      text |-> Capitalize(category) \o " Vibes"]
                    ELSE lLabel[1] = FallbackName(vibes)

\* a tie between melancholy (met first) and party
C22_Witness ==
    /\ lLabel # <<>>
    /\ Len(lTracks) = 3
    /\ \A i \in 1..3 : lTracks[i].cluster = <<lId>> /\ lTracks[i].vibe # <<>>
    /\ lTracks[1].vibe[1].vibe_category = "melancholy"
    /\ lTracks[2].vibe[1].vibe_category = "party"
    /\ lTracks[3].vibe[1].vibe_category = "mixed"
    /\ lLabel[1].text = "Melancholy Vibes"

(***************************************************************************)
(* Claims on the steps of kMeans                                           *)
(***************************************************************************)
\* centroids i and j are equally far from the point
Equidistant(point, centroids, i, j) ==
    /\ ~Nearer(point, centroids[i], centroids[j])
    /\ ~Nearer(point, centroids[j], centroids[i])

\* C23: in every assignment step each vector goes to a centroid at minimum
\* distance, the one of lowest index among those at the minimum distance.
C23_NearestLowestIndex ==
    [][kmPc = "loop" =>
          \A p \in 1..Len(kmData) :
              LET chosen == kmClusters'[p] + 1
              IN  /\ chosen \in 1..kmK
                  /\ \A c \in 1..kmK :
                         ~Nearer(kmData[p], kmCentroids[c], kmCentroids[chosen])
                  /\ \A c \in 1..kmK :
                         Equidistant(kmData[p], kmCentroids, c, chosen) => chosen <= c]_vars

\* after an update step, a vector had its centroid and a later one at the
\* same minimum distance, and went to the earlier of the two, not the first
\* of all
C23_Witness ==
    /\ kmPc = "converged"
    /\ kmIter >= 1
    /\ \E p \in 1..Len(kmData) :
           /\ kmClusters[p] = 1
           /\ kmK = 3
           /\ Equidistant(kmData[p], kmCentroids, 2, 3)

\* the vectors assigned to centroid c (1-based) by the assignment
MembersOf(clusters, c) == {p \in 1..Len(clusters) : clusters[p] = c - 1}

RECURSIVE SumOver(_, _, _)
\* the sum of coordinate j over the vectors of the index set
SumOver(data, members, j) ==
    IF members = {} THEN 0
    ELSE LET p == CHOOSE q \in members : TRUE
         IN  data[p][j] + SumOver(data, members \ {p}, j)

\* C24: in every update step a centroid with members becomes the
\* coordinate-wise mean of its members, and a centroid without members keeps
\* exactly its previous position.
C24_MeanOrUnmoved ==
    [][(kmPc = "loop" /\ kmIter' = kmIter + 1) =>
          \A c \in 1..kmK :
              LET members == MembersOf(kmClusters', c)
              IN  IF members = {}
                  THEN kmCentroids'[c] = kmCentroids[c]
                  ELSE \A j \in 1..Len(kmData[1]) :
                           kmCentroids'[c].num[j] * Cardinality(members)
                               = kmCentroids'[c].den * SumOver(kmData, members, j)]_vars

\* an update left a centroid without members at the position drawn for it,
\* away from the origin, and moved another one to the mean of two different
\* vectors
C24_Witness ==
    /\ kmIter >= 1
    /\ \E c, d \in 1..kmK :
           /\ MembersOf(kmClusters, c) = {}
           /\ kmCentroids[c] = [num |-> <<9>>, den |-> 1]
           /\ Cardinality(MembersOf(kmClusters, d)) = 2
           /\ Cardinality({kmData[p] : p \in MembersOf(kmClusters, d)}) = 2
           /\ kmCentroids[d].den = 2

\* C25: kMeans terminates.  It performs at most maxIterations assignment
\* steps; an iteration whose assignment equals the previous one (all zero
\* before the first) ends the loop without an update step, and every other
\* iteration updates and counts towards maxIterations.
C25_Terminates ==
    /\ [][kmPc = "loop" =>
             /\ Len(kmChurn') = Len(kmChurn) + 1
             /\ Len(kmChurn') <= MaxIterations
             /\ IF \A p \in 1..Len(kmData) :
                       ClosestCentroid(kmData[p], kmCentroids) = kmClusters[p]
                THEN /\ kmPc' = "converged"
                     /\ kmCentroids' = kmCentroids
                     /\ kmClusters' = kmClusters
                ELSE /\ kmPc' = (IF Len(kmChurn') = MaxIterations THEN "capped" ELSE "loop")
                     /\ kmClusters' # kmClusters]_vars
    /\ <>(kmPc \in {"converged", "capped"})

\* the loop stopped at its second assignment step, below the cap, after one
\* update that moved a centroid
C25_Witness ==
    /\ kmPc = "converged"
    /\ Len(kmChurn) = 2
    /\ Len(kmChurn) <= MaxIterations
    /\ kmIter = 1
    /\ \E c \in 1..kmK : kmCentroids[c].den > 1

(***************************************************************************)
(* Claims on the refresh and the retry of one call                         *)
(***************************************************************************)
\* the events of the current call that are of the given request
EventsOf(request) == {i \in 1..Len(mEvents) : mEvents[i].request = request}

\* how a settled request ends a call that returns its response
EndOf(outcome) ==
    IF outcome = "networkError" THEN Thrown(NetworkRequestFailed)
    ELSE Returned(Status(outcome))

\* C26: a call refreshes the token at most once and retries at most once.  A
\* 401 followed by a successful refresh re-issues the same request once, with
\* the new token, and the call ends as that request does; a 401 without a
\* refresh token or with a failed refresh throws without a retry; any other
\* response is returned without a refresh.
C26_OneRefreshOneRetry ==
    /\ Cardinality(EventsOf("fetch")) <= 1
    /\ Cardinality(EventsOf("refresh")) <= 1
    /\ Cardinality(EventsOf("retry")) <= 1
    /\ (mPc = "idle" /\ EventsOf("fetch") # {}) =>
           LET fetched == mEvents[2]
           IN  IF fetched.outcome # "401"
               THEN /\ Len(mEvents) = 2
                    /\ mResult = <<EndOf(fetched.outcome)>>
               ELSE IF Len(mEvents) >= 3 /\ mEvents[3].outcome \in {"ok", "okRotated"}
               THEN /\ Len(mEvents) = 4
                    /\ mEvents[4].request = "retry"
                    /\ mEvents[4].url = fetched.url
                    /\ mEvents[4].token = <<"new">>
                    /\ mEvents[4].token = accessToken
                    /\ mResult = <<EndOf(mEvents[4].outcome)>>
               ELSE /\ EventsOf("retry") = {}
                    /\ Len(mEvents) \in {2, 3}
                    /\ Len(mEvents) = 2 => refreshToken = <<>>
                    /\ Len(mEvents) = 3 => mEvents[3].outcome \in {"notOk", "networkError"}
                    /\ mResult = <<Thrown(SessionExpired)>>

\* a call met 401, refreshed, retried with the new token and returned the
\* retry's response
C26_Witness ==
    /\ mPc = "idle"
    /\ Len(mEvents) = 4
    /\ mEvents[2] = Event("fetch", "/playlists/id/tracks", <<"old">>, "401")
    /\ mEvents[3] = Event("refresh", "/api/token", <<"refresh">>, "ok")
    /\ mEvents[4] = Event("retry", "/playlists/id/tracks", <<"new">>, "200")
    /\ mResult = <<Returned(200)>>

(***************************************************************************)
(* Claims on the token over the calls of one run                           *)
(***************************************************************************)
\* the events of the caller's run, the current call included
RunEvents == mRun \o mEvents

CategoryGrid == {(Scale \div 20) * i : i \in 0..20}
CategoryTagLists == {<<>>, <<"dance">>, <<"love songs">>, <<"experimental">>,
                     <<"classical", "sad">>}

\* the vibes of the tracks of cluster c on the screen
ScreenVibes(c) == VibesOfCluster(c, tracksWithVibes)

\* determineVibeCategory over the grid
GridCategories ==
    {determineVibeCategory(energy, mood, tags) :
        energy \in CategoryGrid, mood \in CategoryGrid, tags \in CategoryTagLists}

\* C28: determineVibeCategory returns a key of VIBE_CATEGORIES for every
\* energy, mood and tag list, and so the label of a cluster with an analyzed
\* member is "<emoji> <Category> Vibes" for a key of VIBE_CATEGORIES, never
\* the fallback name.
C28_AlwaysACanonicalCategory ==
    /\ GridCategories \subseteq DOMAIN VIBE_CATEGORIES
    /\ (aPc = "done" /\ clustered) =>
           \A c \in 0..(aK - 1) :
               Len(ScreenVibes(c)) > 0 =>
                   /\ \A i \in 1..Len(ScreenVibes(c)) :
                          ScreenVibes(c)[i].vibe_category \in DOMAIN VIBE_CATEGORIES
                   /\ \E category \in DOMAIN VIBE_CATEGORIES :
                          getVibeClusterName(c, tracksWithVibes)
                              = [emoji |-> VIBE_CATEGORIES[category].emoji,
                                 text |-> Capitalize(category) \o " Vibes"]

\* a cluster of tracks of two different categories got a category name
C28_Witness ==
    /\ aPc = "done"
    /\ clustered
    /\ \E c \in 0..(aK - 1) :
           /\ Cardinality({ScreenVibes(c)[i].vibe_category : i \in 1..Len(ScreenVibes(c))}) = 2
           /\ getVibeClusterName(c, tracksWithVibes).text = "Focus Vibes"

(***************************************************************************)
(* Claims on the list of the playlist screen                               *)
(***************************************************************************)
\* every track of the list has a vibe and a cluster id in [0, k)
AllClustered(tracks, k) ==
    \A i \in 1..Len(tracks) :
        /\ tracks[i].vibe # <<>>
        /\ tracks[i].cluster # <<>>
        /\ tracks[i].cluster[1] \in 0..(k - 1)

\* C29: in every state of the playlist screen, clustered holds only if every
\* track of the list has a vibe and a cluster id in [0, k); Reset leaves
\* clustered false and the list with the same tracks in the same order,
\* without vibes and cluster ids.
C29_ClusteredListConsistent ==
    /\ [](clustered => AllClustered(tracksWithVibes, aK))
    /\ [][(clustered /\ ~clustered') =>
              /\ tracksWithVibes' = aTracks
              /\ Len(tracksWithVibes') = Len(tracksWithVibes)
              /\ \A i \in 1..Len(tracksWithVibes) :
                     /\ tracksWithVibes'[i].id = tracksWithVibes[i].id
                     /\ tracksWithVibes'[i].vibe = <<>>
                     /\ tracksWithVibes'[i].cluster = <<>>]_vars

\* Reset was pressed after an analysis that gave three clusters
C29_Witness ==
    /\ aPc = "done"
    /\ mounted
    /\ ~clustered
    /\ aK = 3
    /\ Len(tracksWithVibes) = 3
    /\ NoAnalysisResult(tracksWithVibes)

(***************************************************************************)
(* Claims on the state of the auth provider                                *)
(***************************************************************************)
\* C30: a run of checkAuth ends with authLoading false, and with isLoggedIn
\* true only if the token held as accessToken was validated successfully
\* during the run; in every state of the provider isLoggedIn implies a
\* non-null accessToken.
C30_LoggedInMeansValidated ==
    /\ [](isLoggedIn => accessToken # <<>>)
    /\ [][(cPc # "idle" /\ cPc' = "idle") =>
              /\ ~authLoading'
              /\ isLoggedIn' => (accessToken' # <<>> /\ cValidated' = accessToken')]_vars

\* a run that found the stored token invalid, refreshed it and validated the
\* new token has ended logged in
C30_Witness ==
    /\ cPc = "idle"
    /\ ~authLoading
    /\ isLoggedIn
    /\ cToken = <<"new">>
    /\ cValidated = <<"new">>
    /\ accessToken = <<"new">>
    /\ storedToken = <<"new">>

====
